---------------------------- MODULE Spec2Model ----------------------------
(***************************************************************************)
(* Model of fileutilitytoolgui.py (src/Windows/fileutilitytoolgui.py):     *)
(* the job runner of the GUI (App.thread_runner, App.cancel_action and the *)
(* start callbacks), the FileGrouper start guard (App.run_filegroup,       *)
(* App.resume_filegroup), the directory cleaner                            *)
(* (delete_empty_folders_generator) and the four store jobs (generate_sql, *)
(* generate_and_mark_duplicates, delete_duplicates_generator,              *)
(* group_files_generator) over the sqlite store.                           *)
(*                                                                         *)
(* Several specifications share the variables; each leaves the variables   *)
(* of the other parts at their initial value:                              *)
(*   SpecCtl      the runner: start requests, the task_active flag, cancel *)
(*   SpecGui      the FileGrouper start guard                              *)
(*   SpecPrune    the directory cleaner over a directory tree              *)
(*   SpecIndex    generate_sql, cancelled and resumed                      *)
(*   SpecDedup    generate_sql, marking and deleting, cancelled and resumed*)
(*   Spec         the four store jobs, each run fresh and to its end       *)
(*   SpecPipeline index, mark, delete in that order, each to its end       *)
(*   SpecEvents   the event streams of the five generators                 *)
(*   SpecRace     two generate_sql generators on one store                 *)
(*   SpecGroup    group_files_generator, cancelled, resumed and dry runs   *)
(*   SpecConfig   the four store jobs started on missing or empty inputs   *)
(*   SpecGroupResume  group_files_generator cancelled and then resumed     *)
(*   SpecStorage  generate_sql on a store whose open or insert can fail    *)
(*   SpecWalk     generate_sql's directory walk over trees with git names  *)
(*   SpecRaceDelete  two generate_sql generators, then marking and deleting*)
(*   SpecCtlFair  SpecCtl with the finally clause of every thread fair     *)
(***************************************************************************)
EXTENDS Integers, Sequences, FiniteSets, TLC

VARIABLES
    \* ---- runner (App) ----
    task_active,    \* App.task_active
    cancel_event,   \* App.cancel_event (threading.Event): TRUE when set
    thr,            \* one record per start request / worker thread
    \* ---- FileGrouper start guard ----
    origin_dir,     \* text of the origin entry (filegroupstart_dir)
    dest_dir,       \* text of the destination entry (filegroupdest_dir)
    fg_launch,      \* the group_files_generator thread the GUI launched
    dialog,         \* last message shown by run_filegroup
    \* ---- directory cleaner ----
    tree,           \* the directory tree: directories on disk, those holding a file
    prune,          \* the running delete_empty_folders_generator
    \* ---- store jobs ----
    disk,           \* origin files currently on disk
    content,        \* content of every origin file (fixed: the tree is unchanged)
    perms,          \* files that cannot be opened, files that cannot be removed
    destfiles,      \* destination files: destination path -> content
    db,             \* the sqlite store: schema, hashvalues, filegroups, metadata
    job,            \* the running (or last finished) job generator
    runs,           \* number of job runs started
    hist,           \* observations of earlier runs, used to state the claims
    job2            \* a second generator running at the same time as job

vars == << task_active, cancel_event, thr, origin_dir, dest_dir, fg_launch,
           dialog, tree, prune, disk, content, perms, destfiles, db, job,
           runs, hist, job2 >>

ctlVars   == << task_active, thr >>
guiVars   == << origin_dir, dest_dir, fg_launch, dialog >>
pruneVars == << tree, prune >>
jobVars   == << disk, content, perms, destfiles, db, job, runs, hist, job2 >>

-----------------------------------------------------------------------------
(* Generic helpers *)

Range(s) == { s[i] : i \in DOMAIN s }

IsPrefix(p, s) == Len(p) <= Len(s) /\ SubSeq(s, 1, Len(p)) = p

\* ---- the events a job generator yields ----
\* An event is a pair (kind, payload). The text is kept for status events
\* only; the payload of a progress event, processed / total * 100, is kept
\* exactly as the fraction num / den (num = processed * 100, den = total).
Event(kind, text) == [kind |-> kind, text |-> text, num |-> 0, den |-> 1]

\* ("progress", (processed / total) * 100) as the cleaner yields it (1016)
Progress(processed, total) ==
    [kind |-> "progress", text |-> "", num |-> processed * 100, den |-> total]

\* Mutant of ClampedProgress: the percentage is not clamped
UnclampedProgress(processed, total) == Progress(processed, total)

\* ("progress", percent) with percent clamped to 100.0 (319-322, 481-484,
\* 646-649, 844-847)
ClampedProgress(processed, total) ==
    IF processed > total THEN Progress(total, total)
    ELSE Progress(processed, total)

-----------------------------------------------------------------------------
(***************************************************************************)
(* PART 1 - the runner: App.thread_runner, App.cancel_action, start_*      *)
(***************************************************************************)

NThreads == 2      \* start requests considered
MaxIters == 1      \* loop iterations of a job's generator (its workset size)

Threads == 1 .. NThreads

\* pc of a start request:
\*   "none"      the button was not pressed yet
\*   "check"     thread started, thread_runner about to read task_active (1418)
\*   "rejected"  thread_runner showed the busy warning and returned (1421-1431)
\*   "acquire"   thread_runner saw task_active False, about to set it (1434)
\*   "run"       the generator was invoked and has not ended (1444-1464)
\*   "finally"   the generator ended, the finally clause is next (1473-1475)
\*   "ended"     thread_runner returned
ThrInit == [pc |-> "none", left |-> 0, outcome |-> "none", sawBusy |-> FALSE]

\* start_generate_sql, calculate_duplicates, start_delete_duplicates,
\* run_filegroup, run_directorycleaner, resume_*: clear the shared token and
\* start a thread on thread_runner. n is the size of the job's workset.
StartRequest(t, n) ==
    /\ thr[t].pc = "none"
    /\ cancel_event' = FALSE
    /\ thr' = [thr EXCEPT ![t] = [@ EXCEPT !.pc = "check", !.left = n]]
    /\ UNCHANGED task_active

\* Mutant of ThreadRunnerCheck: a request that finds the runner busy is not
\* rejected but goes on to take the flag and run.
ThreadRunnerCheckQueues(t) ==
    /\ thr[t].pc = "check"
    /\ thr' = [thr EXCEPT ![t] = [@ EXCEPT !.pc = "acquire",
                                           !.sawBusy = task_active]]
    /\ UNCHANGED << task_active, cancel_event >>

\* thread_runner lines 1417-1431: read task_active; when set, show the
\* warning and return (the return is outside the try/finally of 1443-1475).
ThreadRunnerCheck(t) ==
    /\ thr[t].pc = "check"
    /\ IF task_active
          THEN thr' = [thr EXCEPT ![t] = [@ EXCEPT !.pc = "rejected",
                                                   !.sawBusy = TRUE]]
          ELSE thr' = [thr EXCEPT ![t] = [@ EXCEPT !.pc = "acquire"]]
    /\ UNCHANGED << task_active, cancel_event >>

\* thread_runner lines 1433-1444: set the flag, build the kwargs, invoke the
\* generator. The read of 1418 and this write are separate steps of the thread.
ThreadRunnerAcquire(t) ==
    /\ thr[t].pc = "acquire"
    /\ task_active' = TRUE
    /\ thr' = [thr EXCEPT ![t] = [@ EXCEPT !.pc = "run"]]
    /\ UNCHANGED cancel_event

\* One iteration of the job's loop as every generator runs it: the cancel
\* check first (e.g. 306, 461, 628, 831, 988), then one unit of work; after
\* the last unit the generator finalizes and yields done.
GeneratorStep(t) ==
    /\ thr[t].pc = "run"
    /\ IF thr[t].left = 0
          THEN thr' = [thr EXCEPT ![t] = [@ EXCEPT !.pc = "finally",
                                                   !.outcome = "done"]]
          ELSE IF cancel_event
                  THEN thr' = [thr EXCEPT ![t] = [@ EXCEPT !.pc = "finally",
                                                   !.outcome = "cancelled"]]
                  ELSE thr' = [thr EXCEPT ![t] = [@ EXCEPT !.left = @ - 1]]
    /\ UNCHANGED << task_active, cancel_event >>

\* The generator ends early: a terminal error event (e.g. 227-230) or an
\* exception that thread_runner catches (1466-1471).
GeneratorFail(t, how) ==
    /\ thr[t].pc = "run"
    /\ thr' = [thr EXCEPT ![t] = [@ EXCEPT !.pc = "finally", !.outcome = how]]
    /\ UNCHANGED << task_active, cancel_event >>

\* Mutant of ThreadRunnerFinally: the thread ends without releasing the flag.
ThreadRunnerFinallyHolds(t) ==
    /\ thr[t].pc = "finally"
    /\ thr' = [thr EXCEPT ![t] = [@ EXCEPT !.pc = "ended"]]
    /\ UNCHANGED << task_active, cancel_event >>

\* thread_runner lines 1473-1475: the finally clause.
ThreadRunnerFinally(t) ==
    /\ thr[t].pc = "finally"
    /\ task_active' = FALSE
    /\ thr' = [thr EXCEPT ![t] = [@ EXCEPT !.pc = "ended"]]
    /\ UNCHANGED cancel_event

\* cancel_action lines 1489-1506: set the token and release the flag.
CancelAction ==
    /\ \E t \in Threads : thr[t].pc # "none"
    /\ cancel_event' = TRUE
    /\ task_active' = FALSE
    /\ UNCHANGED thr

-----------------------------------------------------------------------------
(***************************************************************************)
(* PART 2 - the FileGrouper start guard: App.run_filegroup (1612-1684),    *)
(* App.resume_filegroup (1774-1797), group_files_generator (724-749)       *)
(***************************************************************************)

\* Entry texts are strings, modelled as sequences of characters.
SEP == "/"                       \* os.sep

EntryTexts ==
    { << >>,
      << "/", "a" >>,
      << "/", "a", "/" >>,
      << "/", "a", "/", "b" >>,
      << "/", "a", "b" >>,
      << "/", "c" >>,
      << "/", "c", " " >> }

\* str.strip(): drop leading and trailing blanks
RECURSIVE LStrip(_)
LStrip(s) == IF s # << >> /\ Head(s) = " " THEN LStrip(Tail(s)) ELSE s

RECURSIVE RStrip(_)
RStrip(s) ==
    IF s # << >> /\ s[Len(s)] = " " THEN RStrip(SubSeq(s, 1, Len(s) - 1)) ELSE s

Strip(s) == RStrip(LStrip(s))

\* str.startswith
StartsWith(s, p) == IsPrefix(p, s)

\* The directory a text names: its components, empty ones dropped (what the
\* operating system resolves "/a/" and "/a" to).
RECURSIVE Components(_, _)
Components(s, cur) ==
    IF s = << >>
       THEN (IF cur = << >> THEN << >> ELSE << cur >>)
       ELSE IF Head(s) = SEP
               THEN (IF cur = << >> THEN << >> ELSE << cur >>)
                        \o Components(Tail(s), << >>)
               ELSE Components(Tail(s), Append(cur, Head(s)))

DirOf(s) == Components(s, << >>)

\* Directories that exist before the FileGrouper runs (os.path.isdir)
ExistingDirs == { << <<"a">> >>, << <<"a">>, <<"b">> >>, << <<"a", "b">> >>,
                  << <<"c">> >> }

IsDir(s) == s # << >> /\ DirOf(s) \in ExistingDirs

\* The destination is the origin or lies inside it
SameOrNested(dest, origin) == IsPrefix(DirOf(origin), DirOf(dest))

\* run_filegroup lines 1652-1666: dest_dir and origin_dir are str, so
\* dest_dir.is_relative_to raises AttributeError unless the texts are equal,
\* and the except branch compares with startswith(origin + os.sep).
GuardRejects(dest, origin) ==
    \/ dest = origin
    \/ StartsWith(dest, origin \o << SEP >>)

FgIdle == [kind |-> "none", origin |-> << >>, dest |-> << >>, phase |-> "none"]

\* The user edits the two entries
EnterPaths(o, d) ==
    /\ fg_launch.kind = "none"
    /\ origin_dir' = o
    /\ dest_dir' = d
    /\ dialog' = "none"
    /\ UNCHANGED fg_launch

\* run_filegroup lines 1612-1684 (the database entry has its default text)
RunFilegroup ==
    LET o == Strip(origin_dir)
        d == Strip(dest_dir)
    IN  /\ fg_launch.kind = "none"
        /\ dialog = "none"
        /\ IF o = << >>
              THEN dialog' = "no origin" /\ UNCHANGED fg_launch
              ELSE IF d = << >>
                      THEN dialog' = "no destination" /\ UNCHANGED fg_launch
                      ELSE IF GuardRejects(d, o)
                              THEN /\ dialog' = "Invalid Destination"
                                   /\ UNCHANGED fg_launch
                              ELSE /\ dialog' = "Starting"
                                   /\ fg_launch' = [kind |-> "fresh", origin |-> o,
                                                    dest |-> d, phase |-> "validate"]
        /\ UNCHANGED << origin_dir, dest_dir >>

\* resume_filegroup lines 1774-1797: no validation of the entries
ResumeFilegroup ==
    /\ fg_launch.kind = "none"
    /\ dialog = "none"
    /\ dialog' = "Resuming"
    /\ fg_launch' = [kind |-> "resume", origin |-> Strip(origin_dir),
                     dest |-> Strip(dest_dir), phase |-> "validate"]
    /\ UNCHANGED << origin_dir, dest_dir >>

\* group_files_generator lines 724-749: the generator's own validation. The
\* origin must be a directory; a missing destination is created.
GroupFilesValidate ==
    /\ fg_launch.phase = "validate"
    /\ fg_launch' = [fg_launch EXCEPT !.phase =
            IF ~IsDir(fg_launch.origin) THEN "error"
            ELSE IF fg_launch.kind = "fresh" THEN "scan" ELSE "process"]
    /\ UNCHANGED << origin_dir, dest_dir, dialog >>

\* group_files_generator lines 751-796 (scan phase, fresh start only) and
\* 798-930 (processing phase), as phases of the launched thread.
GroupFilesAdvance ==
    /\ fg_launch.phase \in {"scan", "process"}
    /\ fg_launch' = [fg_launch EXCEPT !.phase =
            IF fg_launch.phase = "scan" THEN "process" ELSE "done"]
    /\ UNCHANGED << origin_dir, dest_dir, dialog >>

-----------------------------------------------------------------------------
(***************************************************************************)
(* PART 3 - the directory cleaner: delete_empty_folders_generator          *)
(* (938-1020)                                                              *)
(***************************************************************************)

\* A directory is the sequence of names from the start directory to it; the
\* start directory is the empty sequence.
RootDir == << >>

\* The directories a tree may hold below the start directory, in name order
DirUniverse == << <<"a">>, <<"a", "b">>, <<"a", "b", "c">>, <<"a", "e">>, <<"d">> >>

Parent(d) == SubSeq(d, 1, Len(d) - 1)

Reverse(s) == [i \in 1 .. Len(s) |-> s[Len(s) + 1 - i]]

\* os.scandir of d: its subdirectories, in the order the operating system
\* lists them (unspecified: ascending or descending here)
Children(d, dirs, order) ==
    LET asc == SelectSeq(DirUniverse, LAMBDA e : e \in dirs /\ Parent(e) = d /\ e # d)
    IN  IF order = "asc" THEN asc ELSE Reverse(asc)

\* Mutant of WalkBottomUp: os.walk(topdown=True), a directory is yielded
\* before its subdirectories.
RECURSIVE WalkTopDown(_, _, _)
WalkTopDownAll(kids, dirs, order) ==
    LET F[i \in 0 .. Len(kids)] ==
            IF i = 0 THEN << >> ELSE F[i - 1] \o WalkTopDown(kids[i], dirs, order)
    IN  F[Len(kids)]

WalkTopDown(d, dirs, order) ==
    << d >> \o WalkTopDownAll(Children(d, dirs, order), dirs, order)

\* os.walk(start_path, topdown=False) (986): the directories in the order
\* their (root, dirs, files) tuples are yielded, every directory after all
\* of its subdirectories.
RECURSIVE WalkBottomUp(_, _, _)
WalkBottomUpAll(kids, dirs, order) ==
    LET F[i \in 0 .. Len(kids)] ==
            IF i = 0 THEN << >> ELSE F[i - 1] \o WalkBottomUp(kids[i], dirs, order)
    IN  F[Len(kids)]

WalkBottomUp(d, dirs, order) ==
    WalkBottomUpAll(Children(d, dirs, order), dirs, order) \o << d >>

\* any(folder_path.iterdir()) (999): d holds a file or a subdirectory now
HasEntries(d, dirs, files) ==
    d \in files \/ \E e \in dirs : e # d /\ Parent(e) = d

\* Lines 993-1017 for the subdirectories `kids` of one yielded tuple: each
\* one is removed when it has no entry at that moment, unless the run is a
\* dry run or rmdir fails. Result: the directories left, the counters, and
\* per subdirectory the kind of the event yielded for it ("log", or
\* "error" when rmdir failed, 1009).
EvalDirs(kids, dirs, files, unremovable, dry_run) ==
    LET F[i \in 0 .. Len(kids)] ==
            IF i = 0
               THEN [dirs |-> dirs, deleted |-> 0, failed |-> 0,
                     outcomes |-> << >>]
               ELSE LET s == F[i - 1]
                        d == kids[i]
                    IN  IF HasEntries(d, s.dirs, files)
                           THEN [s EXCEPT !.outcomes = Append(@, "log")]
                           ELSE IF dry_run
                                   THEN [s EXCEPT !.deleted = @ + 1,
                                                  !.outcomes = Append(@, "log")]
                                   ELSE IF d \in unremovable
                                           THEN [s EXCEPT !.failed = @ + 1,
                                                          !.outcomes = Append(@, "error")]
                                           ELSE [s EXCEPT !.dirs = @ \ {d},
                                                          !.deleted = @ + 1,
                                                          !.outcomes = Append(@, "log")]
    IN  F[Len(kids)]

PruneIdle == [pc |-> "idle", walk |-> << >>, i |-> 0, order |-> "asc",
              dry_run |-> FALSE, dirs0 |-> {}, total_dirs |-> 0,
              processed |-> 0, deleted_count |-> 0, failed |-> 0,
              events |-> << >>]

\* The events of 993-1017 for one yielded tuple: for every subdirectory
\* its log or error event, then the progress event
EvalEvents(outcomes, processed, total_dirs) ==
    LET F[k \in 0 .. Len(outcomes)] ==
            IF k = 0 THEN << >>
            ELSE F[k - 1] \o << Event(outcomes[k], ""),
                                Progress(processed + k, total_dirs) >>
    IN  F[Len(outcomes)]

\* Lines 947-981: resolve the start directory (it exists), count the
\* directories below it, stop at once when there is none.
PruneStart(dry, order) ==
    /\ prune.pc = "idle"
    /\ cancel_event' = FALSE            \* run_directorycleaner line 1716
    /\ LET total == Cardinality(tree.dirs \ {RootDir})
       IN  prune' = [PruneIdle EXCEPT
                !.pc = IF total = 0 THEN "done" ELSE "walk",
                !.walk = IF total = 0 THEN << >>
                         ELSE WalkBottomUp(RootDir, tree.dirs, order),
                !.i = 1, !.order = order, !.dry_run = dry,
                !.dirs0 = tree.dirs, !.total_dirs = total,
                !.events =
                    IF total = 0
                       THEN << Event("status", "Scanning for empty folders"),
                               Event("status", "No subdirectories found."),
                               Event("done", "") >>
                       ELSE << Event("status", "Scanning for empty folders"),
                               Event("log", ""),
                               Event("status", "Evaluating directories...") >>]
    /\ UNCHANGED tree

\* Lines 986-1017: one yielded tuple. The cancel check comes first (988).
PruneStep ==
    /\ prune.pc = "walk"
    /\ prune.i <= Len(prune.walk)
    /\ IF cancel_event
          THEN /\ prune' = [prune EXCEPT
                      !.pc = "cancelled",
                      !.events = @ \o << Event("status", "Cancelled by user."),
                                          Event("done", "") >>]
               /\ UNCHANGED tree
          ELSE LET root == prune.walk[prune.i]
                   kids == Children(root, prune.dirs0, prune.order)
                   r    == EvalDirs(kids, tree.dirs, tree.files,
                                    tree.unremovable, prune.dry_run)
               IN  /\ tree' = [tree EXCEPT !.dirs = r.dirs]
                   /\ prune' = [prune EXCEPT
                          !.i = @ + 1,
                          !.processed = @ + Len(kids),
                          !.deleted_count = @ + r.deleted,
                          !.failed = @ + r.failed,
                          !.events = @ \o EvalEvents(r.outcomes, prune.processed,
                                                     prune.total_dirs)]
    /\ UNCHANGED cancel_event

\* Lines 1019-1020: the walk is exhausted
PruneFinish ==
    /\ prune.pc = "walk"
    /\ prune.i > Len(prune.walk)
    /\ prune' = [prune EXCEPT
           !.pc = "done",
           !.events = @ \o << Event("status", "Deletion complete."),
                               Event("done", "") >>]
    /\ UNCHANGED << tree, cancel_event >>

\* cancel_action line 1493, while the cleaner runs
PruneCancel ==
    /\ prune.pc = "walk"
    /\ ~cancel_event
    /\ cancel_event' = TRUE
    /\ UNCHANGED << tree, prune >>

\* Trees: a set of directories closed under Parent, the directories that
\* hold a file, and the directories whose rmdir fails.
ParentClosed(ds) == \A d \in ds : d = RootDir \/ Parent(d) \in ds

Trees ==
    { [dirs |-> ds \cup {RootDir}, files |-> fs, unremovable |-> us] :
        ds \in { x \in SUBSET Range(DirUniverse) : ParentClosed(x \cup {RootDir}) },
        fs \in SUBSET (Range(DirUniverse) \cup {RootDir}),
        us \in { x \in SUBSET Range(DirUniverse) : Cardinality(x) <= 1 } }

TreeOk(t) == t.files \subseteq t.dirs /\ t.unremovable \subseteq t.dirs

-----------------------------------------------------------------------------
(***************************************************************************)
(* PART 4 - the store jobs: the files, the store and its helpers           *)
(***************************************************************************)

\* The origin files, in the order os.walk lists them when dirs and files
\* are sorted (238-239, 756-757)
AllFiles == << "T/a/x.txt", "T/b/.gitignore", "T/b/x.txt", "T/b/y.txt" >>

Files == Range(AllFiles)

\* The directories a job may be started on; "T/zz" does not exist
StartDirs == { "T", "T/a", "T/b", "T/zz" }

ExistingStartDirs == { "T", "T/a", "T/b" }

\* The directories on the way from a start directory to the file
DirsAbove(p) ==
    CASE p = "T/a/x.txt"      -> { "T", "T/a" }
      [] p = "T/b/.gitignore" -> { "T", "T/b" }
      [] p = "T/b/x.txt"      -> { "T", "T/b" }
      [] p = "T/b/y.txt"      -> { "T", "T/b" }

\* The file lies below a directory named .git or GIT (240)
InGitDir(p) == FALSE

\* os.path.basename
Basename(p) ==
    CASE p = "T/a/x.txt"      -> "x.txt"
      [] p = "T/b/.gitignore" -> ".gitignore"
      [] p = "T/b/x.txt"      -> "x.txt"
      [] p = "T/b/y.txt"      -> "y.txt"

\* Path(p).stem and Path(p).suffix.lower()
Stem(p) ==
    CASE Basename(p) = "x.txt"      -> "x"
      [] Basename(p) = "y.txt"      -> "y"
      [] Basename(p) = ".gitignore" -> ".gitignore"

Suffix(p) == IF Basename(p) = ".gitignore" THEN "" ELSE ".txt"

\* '/GIT/' in p.upper() or '.git' in p   (491, 654)
GitFiltered(p) == p = "T/b/.gitignore"

Contents == { "A", "B" }

\* hashlib.md5 of a content: one digest per content, no collisions
Md5(c) == "md5:" \o c

\* The digests in ascending order (the order GROUP BY hash returns)
HashOrder == << Md5("A"), Md5("B") >>

NULL == "NULL"

\* os.walk from start_dir with sorted dirs and files; generate_sql prunes
\* the version-control directories (235-242), group_files_generator does
\* not (754-759)
Walk(start_dir, onDisk, gitExcluded) ==
    SelectSeq(AllFiles, LAMBDA p : /\ p \in onDisk
                                   /\ start_dir \in DirsAbove(p)
                                   /\ ~(gitExcluded /\ InGitDir(p)))

\* open(path, 'rb') and a full read succeed
Readable(p) == p \in disk /\ p \notin perms.unreadable

\* The md5 loop of 336-341 and compute_md5 (95-104): the digest, or NULL
\* when the file cannot be read
ComputeMd5(p) == IF Readable(p) THEN Md5(content[p]) ELSE NULL

\* ---- metadata table (21-42) ----

\* set_metadata (32-35): INSERT OR REPLACE. Values are stored as str(value)
\* and numbers read back with int(): the value itself is kept here.
SetMetadata(m, key, value) ==
    [k \in DOMAIN m \cup {key} |-> IF k = key THEN value ELSE m[k]]

\* get_metadata (38-42)
GetMetadata(m, key, default) == IF key \in DOMAIN m THEN m[key] ELSE default

\* Several set_metadata calls in a row: kv is a sequence of <<key, value>>
SetAll(m, kv) ==
    LET F[i \in 0 .. Len(kv)] ==
            IF i = 0 THEN m ELSE SetMetadata(F[i - 1], kv[i][1], kv[i][2])
    IN  F[Len(kv)]

\* resume_action (1732-1768): the job it resumes is the one named by the
\* metadata key last_operation
ResumeAction(d) ==
    IF ~d.exists THEN "none"
    ELSE LET last_op == GetMetadata(d.meta, "last_operation", NULL)
         IN  CASE last_op = "generate_sql"         -> "generate_sql"
               [] last_op = "calculate_duplicates" -> "mark_duplicates"
               [] last_op = "delete_duplicates"    -> "delete_duplicates"
               [] OTHER                            -> "none"

\* The clamp of a resumed counter (290-293, 439-442, 608-611, 814-817)
Clamp(n, total) == IF n < 0 THEN 0 ELSE IF n > total THEN total ELSE n

\* ---- the store ----
\* schema: "none"  no hashvalues table yet
\*         "plain" hashvalues as generate_sql creates it (259-262): no id
\*                 column, path not UNIQUE
\*         "full"  hashvalues as ensure_schema_for_grouper creates it (53-62)
\* hashvalues and filegroups are kept in _rowid_ / id order.
EmptyDb == [exists |-> FALSE, schema |-> "none", hashvalues |-> << >>,
            filegroups |-> << >>, meta |-> << >>]

HashRow(rownum, path, filehash) ==
    [row |-> rownum, path |-> path, hash |-> filehash, duplicate |-> NULL,
     deleted |-> 0]

\* Mutant of ExistingPaths: the recorded paths are not loaded
ExistingPathsNone(hv) == {}

\* SELECT path FROM hashvalues (273-274)
ExistingPaths(hv) == { hv[i].path : i \in DOMAIN hv }

\* get_hash_for_path (176-180): the hash of the first row with this path
GetHashForPath(hv, path) ==
    IF \E i \in DOMAIN hv : hv[i].path = path
       THEN hv[CHOOSE i \in DOMAIN hv :
                  /\ hv[i].path = path
                  /\ \A j \in DOMAIN hv : hv[j].path = path => i <= j].hash
       ELSE NULL

\* SELECT MAX(row) FROM hashvalues, then + 1 (192-197)
NextRowByMax(hv) ==
    IF hv = << >> THEN 0
    ELSE (CHOOSE m \in { hv[i].row : i \in DOMAIN hv } :
              \A i \in DOMAIN hv : hv[i].row <= m) + 1

\* insert_or_update_hashvalue (183-200) on a "full" schema
InsertOrUpdateHashvalue(hv, path, filehash) ==
    IF path \in ExistingPaths(hv)
       THEN [i \in DOMAIN hv |->
                IF hv[i].path = path THEN [hv[i] EXCEPT !.hash = filehash]
                ELSE hv[i]]
       ELSE Append(hv, HashRow(NextRowByMax(hv), path, filehash))

\* mark_hashvalues_duplicate (203-207)
MarkHashvaluesDuplicate(hv, hash_value) ==
    [i \in DOMAIN hv |->
        IF hv[i].hash = hash_value /\ hv[i].duplicate \in {NULL, "0"}
           THEN [hv[i] EXCEPT !.duplicate = "1"]
           ELSE hv[i]]

\* No job generator is between its start and its end
NoJobRunning == job.pc \notin {"loop", "scan"}

\* What a run remembers of the state it started from, to state the claims:
\* the job that ended just before it and, for generate_sql, the records an
\* uninterrupted run leaves (chain).
Remember(chainBase) ==
    [prev  |-> [kind |-> job.kind, pc |-> job.pc,
                resume  |-> IF job.kind = "none" THEN FALSE ELSE job.resume,
                dry_run |-> IF job.kind = "none" THEN FALSE ELSE job.dry_run,
                dir     |-> IF job.kind = "none" THEN "" ELSE job.dir],
     chain |-> chainBase]

NoChain == [on |-> FALSE]

JobIdle == [kind |-> "none", pc |-> "idle"]

HistIdle == [prev |-> [kind |-> "none", pc |-> "idle", resume |-> FALSE,
                       dry_run |-> FALSE, dir |-> ""],
             chain |-> NoChain]

\* cancel_action line 1493 while a store job runs
CancelJob ==
    /\ ~NoJobRunning
    /\ ~cancel_event
    /\ cancel_event' = TRUE
    /\ UNCHANGED jobVars

-----------------------------------------------------------------------------
(***************************************************************************)
(* generate_sql (220-380)                                                  *)
(***************************************************************************)

\* Lines 226-301, once the directory holds files: connect (the store and a
\* plain hashvalues table are created when missing), load the recorded
\* paths, reset or reload the checkpoint, read row_counter.
\* Result: the store and the generator's locals at the top of the loop.
GenerateSqlBegin(d, start_dir, resume, file_list) ==
    LET total_files == Len(file_list)
        processed ==
            IF resume
               THEN Clamp(GetMetadata(d.meta, "processed_count", 0), total_files)
               ELSE 0
        meta1 ==
            IF resume
               THEN SetAll(d.meta, << <<"total_files", total_files>>,
                                      <<"operation_state", "generate_sql">>,
                                      <<"last_operation", "generate_sql">> >>)
               ELSE SetAll(d.meta, << <<"operation_state", "generate_sql">>,
                                      <<"last_operation", "generate_sql">>,
                                      <<"last_file", "">>,
                                      <<"processed_count", 0>>,
                                      <<"total_files", total_files>> >>)
    IN  [db  |-> [d EXCEPT !.exists = TRUE,
                           !.schema = IF @ = "none" THEN "plain" ELSE @,
                           !.meta = meta1],
         job |-> [kind |-> "generate_sql", pc |-> "loop", resume |-> resume,
                  dry_run |-> FALSE, dir |-> start_dir,
                  file_list |-> file_list, i |-> 1,
                  total_files |-> total_files, processed |-> processed,
                  row_counter |-> GetMetadata(d.meta, "row_counter", 0),
                  existing_paths |-> ExistingPaths(d.hashvalues),
                  events |-> << Event("status", "Scanning filesystem"),
                                Event("log", ""), Event("log", ""),
                                Event("status", "Preparing database"),
                                Event("log", "") >>]]

\* Mutant of GenerateSqlIter: row_counter is not written to the metadata
\* after an insert (line 365 left out).
GenerateSqlIterNoCounter(d, j, cancelled) ==
    LET filepath == j.file_list[j.i]
        processed == j.processed + 1
        filehash == ComputeMd5(filepath)
        mark == << <<"last_file", filepath>>, <<"processed_count", processed>> >>
    IN  IF cancelled
           THEN [db  |-> [d EXCEPT !.meta =
                            SetAll(@, << <<"operation_state", "cancelled">>,
                                         <<"last_operation", "generate_sql">>,
                                         <<"last_file", filepath>>,
                                         <<"processed_count", j.processed>> >>)],
                 job |-> [j EXCEPT !.pc = "cancelled"]]
        ELSE IF filepath \in j.existing_paths \/ filehash = NULL
           THEN [db  |-> [d EXCEPT !.meta = SetAll(@, mark)],
                 job |-> [j EXCEPT !.i = @ + 1, !.processed = processed]]
        ELSE [db  |-> [d EXCEPT
                        !.hashvalues =
                            Append(@, HashRow(j.row_counter, filepath, filehash)),
                        !.meta = SetAll(@, mark)],
              job |-> [j EXCEPT !.i = @ + 1, !.processed = processed,
                                !.row_counter = @ + 1,
                                !.existing_paths = @ \cup {filepath}]]

\* Lines 304-367: one iteration of the loop for file_list[i]. The cancel
\* check comes first; a recorded path is skipped; a file that cannot be
\* read is logged and skipped; otherwise the record is inserted with the
\* next row_counter. Every branch writes the checkpoint (set_metadata
\* commits, so the insert is committed with it).
GenerateSqlIter(d, j, cancelled) ==
    LET filepath == j.file_list[j.i]
        processed == j.processed + 1
        filehash == ComputeMd5(filepath)
        mark == << <<"last_file", filepath>>, <<"processed_count", processed>> >>
        yielded == j.events \o << ClampedProgress(processed, j.total_files),
                                  Event("file", "") >>
    IN  IF cancelled
           THEN [db  |-> [d EXCEPT !.meta =
                            SetAll(@, << <<"operation_state", "cancelled">>,
                                         <<"last_operation", "generate_sql">>,
                                         <<"last_file", filepath>>,
                                         <<"processed_count", j.processed>> >>)],
                 job |-> [j EXCEPT !.pc = "cancelled",
                                   !.events = @ \o << Event("log", ""),
                                                      Event("status", "cancelled") >>]]
        ELSE IF filepath \in j.existing_paths \/ filehash = NULL
           THEN [db  |-> [d EXCEPT !.meta = SetAll(@, mark)],
                 job |-> [j EXCEPT !.i = @ + 1, !.processed = processed,
                                   !.events =
                                       IF filepath \in j.existing_paths
                                          THEN yielded
                                          ELSE Append(yielded, Event("log", ""))]]
        ELSE [db  |-> [d EXCEPT
                        !.hashvalues =
                            Append(@, HashRow(j.row_counter, filepath, filehash)),
                        !.meta = SetAll(@, << <<"row_counter", j.row_counter + 1>> >>
                                           \o mark)],
              job |-> [j EXCEPT !.i = @ + 1, !.processed = processed,
                                !.row_counter = @ + 1,
                                !.existing_paths = @ \cup {filepath},
                                !.events = yielded]]

\* Lines 369-380: finalize
GenerateSqlEnd(d, j) ==
    [db  |-> [d EXCEPT !.meta =
                SetAll(@, << <<"operation_state", "idle">>,
                             <<"last_operation", "generate_sql">>,
                             <<"last_file", "">>,
                             <<"processed_count", j.processed>>,
                             <<"total_files", j.total_files>> >>)],
     job |-> [j EXCEPT !.pc = "done",
                       !.events = @ \o << Event("status", "done"), Event("log", ""),
                                          Event("done", "") >>]]

\* generate_sql run without interruption from the store d: the loop of
\* 304-367 over the whole file list, then 369-380
GenerateSqlRun(d, start_dir, resume, file_list) ==
    LET b == GenerateSqlBegin(d, start_dir, resume, file_list)
        F[k \in 0 .. Len(file_list)] ==
            IF k = 0 THEN b ELSE GenerateSqlIter(F[k - 1].db, F[k - 1].job, FALSE)
        e == F[Len(file_list)]
    IN  GenerateSqlEnd(e.db, e.job)

\* The run continues the cancelled generate_sql run that ended just before
ContinuesIndexing(start_dir, resume) ==
    /\ resume
    /\ job.kind = "generate_sql" /\ job.pc = "cancelled" /\ job.dir = start_dir
    /\ hist.chain.on

\* Mutant of DirCheck: the start directory is not verified
DirCheckNone(start_dir, file_list) == "ok"

\* The checks before the store is opened: the start directory exists (228)
\* and the walk found a file (245)
DirCheck(start_dir, file_list) ==
    IF start_dir \notin ExistingStartDirs THEN "missing"
    ELSE IF file_list = << >> THEN "empty"
    ELSE "ok"

\* generate_sql is called: 226-301
GenerateSqlStart(start_dir, resume) ==
    LET file_list == Walk(start_dir, disk, TRUE)
        r == GenerateSqlBegin(db, start_dir, resume, file_list)
        failed == [kind |-> "generate_sql", pc |-> "error", resume |-> resume,
                   dry_run |-> FALSE, dir |-> start_dir,
                   events |->
                       IF DirCheck(start_dir, file_list) = "missing"
                          THEN << Event("error", ""), Event("status", "error") >>
                          ELSE << Event("status", "Scanning filesystem"),
                                  Event("log", ""), Event("error", ""),
                                  Event("status", "error") >>]
    IN  /\ NoJobRunning
        /\ runs' = runs + 1
        /\ cancel_event' = FALSE
        /\ IF DirCheck(start_dir, file_list) # "ok"
              THEN /\ job' = failed
                   /\ db' = db
                   /\ hist' = Remember(NoChain)
              ELSE /\ job' = r.job
                   /\ db' = r.db
                   /\ hist' = Remember(
                          IF ContinuesIndexing(start_dir, resume)
                             THEN [hist.chain EXCEPT !.resumed = TRUE]
                             ELSE [on |-> TRUE, resumed |-> FALSE,
                                   expect |-> GenerateSqlRun(db, start_dir, resume,
                                                 file_list).db.hashvalues])
        /\ UNCHANGED << disk, content, perms, destfiles >>

\* One iteration of the loop (304-367)
GenerateSqlStep ==
    /\ job.kind = "generate_sql" /\ job.pc = "loop"
    /\ job.i <= Len(job.file_list)
    /\ LET r == GenerateSqlIter(db, job, cancel_event)
       IN  db' = r.db /\ job' = r.job
    /\ UNCHANGED << cancel_event, disk, content, perms, destfiles, runs, hist >>

\* The loop is exhausted (369-380)
GenerateSqlFinish ==
    /\ job.kind = "generate_sql" /\ job.pc = "loop"
    /\ job.i > Len(job.file_list)
    /\ LET r == GenerateSqlEnd(db, job)
       IN  db' = r.db /\ job' = r.job
    /\ UNCHANGED << cancel_event, disk, content, perms, destfiles, runs, hist >>

\* ---- storage failures in generate_sql ----

\* Lines 253-269 when sqlite3.connect or the CREATE statements raise: the
\* except branch yields an error event and status 'error' and returns; the
\* store is as it was.
GenerateSqlOpenFails(start_dir, resume) ==
    [kind |-> "generate_sql", pc |-> "error", resume |-> resume,
     dry_run |-> FALSE, dir |-> start_dir,
     events |-> << Event("status", "Scanning filesystem"),
                   Event("log", ""), Event("log", ""),
                   Event("status", "Preparing database"),
                   Event("error", ""), Event("status", "error") >>]

\* Lines 304-367 for file_list[i] when the INSERT of 351-355 raises: the
\* except branch of 356-357 yields one log event; row_counter and
\* existing_paths stay as they were (353-355 are not reached); the
\* checkpoint is written as after a successful insert (365-367).
GenerateSqlIterInsertFails(d, j) ==
    LET filepath == j.file_list[j.i]
        processed == j.processed + 1
    IN  [db  |-> [d EXCEPT !.meta =
                    SetAll(@, << <<"row_counter", j.row_counter>>,
                                 <<"last_file", filepath>>,
                                 <<"processed_count", processed>> >>)],
         job |-> [j EXCEPT !.i = @ + 1, !.processed = processed,
                           !.events = @ \o << ClampedProgress(processed,
                                                              j.total_files),
                                              Event("file", ""),
                                              Event("log", "") >>]]

\* generate_sql is called and the store cannot be opened (226-269)
GenerateSqlStartOpenFails(start_dir, resume) ==
    /\ NoJobRunning
    /\ DirCheck(start_dir, Walk(start_dir, disk, TRUE)) = "ok"
    /\ runs' = runs + 1
    /\ cancel_event' = FALSE
    /\ job' = GenerateSqlOpenFails(start_dir, resume)
    /\ hist' = Remember(NoChain)
    /\ UNCHANGED << db, disk, content, perms, destfiles >>

\* One iteration of the loop whose INSERT raises (304-367): the token is
\* not set, the path is not recorded and the file was hashed
GenerateSqlStepInsertFails ==
    /\ job.kind = "generate_sql" /\ job.pc = "loop"
    /\ job.i <= Len(job.file_list)
    /\ ~cancel_event
    /\ job.file_list[job.i] \notin job.existing_paths
    /\ ComputeMd5(job.file_list[job.i]) # NULL
    /\ LET r == GenerateSqlIterInsertFails(db, job)
       IN  db' = r.db /\ job' = r.job
    /\ UNCHANGED << cancel_event, disk, content, perms, destfiles, runs, hist >>

\* ---- a second generate_sql generator, started while the first runs ----

\* generate_sql is called a second time (226-301) while the first
\* generator is inside its loop; start_generate_sql clears the
\* cancellation token (1545)
GenerateSqlStartSecond(start_dir, resume) ==
    LET file_list == Walk(start_dir, disk, TRUE)
        r == GenerateSqlBegin(db, start_dir, resume, file_list)
    IN  /\ job.kind = "generate_sql" /\ job.pc = "loop"
        /\ job2 = JobIdle
        /\ start_dir \in ExistingStartDirs /\ file_list # << >>
        /\ job2' = r.job
        /\ db' = r.db
        /\ cancel_event' = FALSE
        /\ UNCHANGED << disk, content, perms, destfiles, job, runs, hist >>

\* One iteration of the second generator's loop (304-367)
GenerateSqlStepSecond ==
    /\ job2.pc = "loop"
    /\ job2.i <= Len(job2.file_list)
    /\ LET r == GenerateSqlIter(db, job2, cancel_event)
       IN  db' = r.db /\ job2' = r.job
    /\ UNCHANGED << cancel_event, disk, content, perms, destfiles, job, runs, hist >>

\* The second generator's loop is exhausted (369-380)
GenerateSqlFinishSecond ==
    /\ job2.pc = "loop"
    /\ job2.i > Len(job2.file_list)
    /\ LET r == GenerateSqlEnd(db, job2)
       IN  db' = r.db /\ job2' = r.job
    /\ UNCHANGED << cancel_event, disk, content, perms, destfiles, job, runs, hist >>

-----------------------------------------------------------------------------
(***************************************************************************)
(* generate_and_mark_duplicates (387-535)                                  *)
(***************************************************************************)

RowsWithHash(hv, h) == { i \in DOMAIN hv : hv[i].hash = h }

\* ORDER BY row ASC, _rowid_ ASC (487)
RowBefore(hv, i, j) ==
    hv[i].row < hv[j].row \/ (hv[i].row = hv[j].row /\ i < j)

RECURSIVE OrderByRow(_, _)
OrderByRow(hv, S) ==
    IF S = {} THEN << >>
    ELSE LET m == CHOOSE i \in S : \A j \in S : i = j \/ RowBefore(hv, i, j)
         IN  << m >> \o OrderByRow(hv, S \ {m})

\* ORDER BY _rowid_ ASC (652)
OrderByRowid(hv, S) == SelectSeq([i \in DOMAIN hv |-> i], LAMBDA i : i \in S)

\* The filter of 491 and 654 on a list of rowids
Visible(hv, ids) == SelectSeq(ids, LAMBDA i : ~GitFiltered(hv[i].path))

\* The group-selection query of 415-421, in the order sqlite returns the
\* groups (ascending hash)
DuplicateCandidates(hv) ==
    SelectSeq(HashOrder, LAMBDA h :
        /\ Cardinality(RowsWithHash(hv, h)) > 1
        /\ Cardinality({ i \in RowsWithHash(hv, h) : hv[i].duplicate = "1" })
              < Cardinality(RowsWithHash(hv, h)))

\* SELECT COUNT(*) FROM hashvalues WHERE duplicate = 1 (406)
CountDuplicates(hv) == Cardinality({ i \in DOMAIN hv : hv[i].duplicate = "1" })

\* Lines 434-457 for a non-empty candidate list
MarkDuplicatesBegin(d, resume, hash_rows) ==
    LET total_groups == Len(hash_rows)
        last_hash == IF resume THEN GetMetadata(d.meta, "dup_last_hash", "") ELSE ""
        processed_groups ==
            IF resume
               THEN Clamp(GetMetadata(d.meta, "dup_processed_count", 0), total_groups)
               ELSE 0
        meta1 ==
            IF resume THEN d.meta
            ELSE SetAll(d.meta, << <<"operation_state", "calculating_duplicates">>,
                                   <<"last_operation", "calculate_duplicates">>,
                                   <<"dup_last_hash", "">>,
                                   <<"dup_processed_count", 0>>,
                                   <<"dup_total_groups", total_groups>> >>)
    IN  [db  |-> [d EXCEPT !.meta = meta1],
         job |-> [kind |-> "mark_duplicates", pc |-> "loop", resume |-> resume,
                  dry_run |-> FALSE, dir |-> "",
                  hash_rows |-> hash_rows, i |-> 1,
                  total_groups |-> total_groups,
                  processed_groups |-> processed_groups,
                  last_hash |-> last_hash,
                  start_skipping |-> (resume /\ last_hash # ""),
                  baseline |-> CountDuplicates(d.hashvalues),
                  duplicate_count |-> CountDuplicates(d.hashvalues),
                  events |->
                      << Event("status", "Preparing duplicate marking"),
                         Event("log", ""), Event("duplicate_count", "") >>
                      \o (IF resume THEN << Event("log", "") >> ELSE << >>)
                      \o << Event("status", "Scanning duplicate groups") >>]]

\* Mutant of DupRowids: the first visible row is marked as well
DupRowidsAll(hv, visible) ==
    { visible[k] : k \in { n \in 1 .. Len(visible) :
                              hv[visible[n]].duplicate \in {NULL, "0"} } }

\* Lines 499-510: the rowids to mark, every visible row but the first whose
\* duplicate is NULL or 0
DupRowids(hv, visible) ==
    { visible[k] : k \in { n \in 2 .. Len(visible) :
                              hv[visible[n]].duplicate \in {NULL, "0"} } }

\* Lines 459-521: one iteration of the loop for hash_rows[i]
MarkDuplicatesIter(d, j, cancelled) ==
    LET hash_value == j.hash_rows[j.i]
        processed_groups == j.processed_groups + 1
        group_rows == OrderByRow(d.hashvalues, RowsWithHash(d.hashvalues, hash_value))
        visible == Visible(d.hashvalues, group_rows)
        dup_rowids == DupRowids(d.hashvalues, visible)
        mark == << <<"dup_last_hash", hash_value>>,
                   <<"dup_processed_count", processed_groups>> >>
        progress == ClampedProgress(processed_groups, j.total_groups)
        group_dups == [k \in 1 .. 2 * Cardinality(dup_rowids) |->
                          IF k % 2 = 1 THEN Event("group_dup", "")
                          ELSE Event("duplicate_count", "")]
    IN  IF cancelled
           THEN [db  |-> [d EXCEPT !.meta =
                            SetAll(@, << <<"operation_state", "cancelled">>,
                                         <<"last_operation", "calculate_duplicates">>,
                                         <<"dup_last_hash", hash_value>>,
                                         <<"dup_processed_count", j.processed_groups>> >>)],
                 job |-> [j EXCEPT !.pc = "cancelled",
                                   !.events = @ \o << Event("log", ""),
                                                      Event("status", "cancelled") >>]]
        ELSE IF j.start_skipping
           THEN [db  |-> d,
                 job |-> [j EXCEPT !.i = @ + 1,
                                   !.processed_groups = processed_groups,
                                   !.start_skipping = (hash_value # j.last_hash)]]
        ELSE IF visible = << >>
           THEN [db  |-> [d EXCEPT !.meta = SetAll(@, mark)],
                 job |-> [j EXCEPT !.i = @ + 1,
                                   !.processed_groups = processed_groups,
                                   !.events = Append(@, progress)]]
        ELSE [db  |-> [d EXCEPT
                        !.hashvalues = [i \in DOMAIN @ |->
                            IF i \in dup_rowids
                               THEN [@[i] EXCEPT !.duplicate = "1"] ELSE @[i]],
                        !.meta = SetAll(@, mark)],
              job |-> [j EXCEPT !.i = @ + 1,
                                !.processed_groups = processed_groups,
                                !.duplicate_count = @ + Cardinality(dup_rowids),
                                !.events = @ \o << progress, Event("group_start", "") >>
                                             \o group_dups]]

\* Lines 523-535: finalize
MarkDuplicatesEnd(d, j) ==
    [db  |-> [d EXCEPT !.meta =
                SetAll(@, << <<"operation_state", "idle">>,
                             <<"last_operation", "calculate_duplicates">>,
                             <<"dup_last_hash", "">>,
                             <<"dup_processed_count", j.processed_groups>>,
                             <<"dup_total_groups", j.total_groups>> >>)],
     job |-> [j EXCEPT !.pc = "done",
                       !.events = @ \o << Event("status", "done"),
                                          Event("duplicate_count", ""),
                                          Event("log", ""), Event("done", "") >>]]

\* generate_and_mark_duplicates run afresh and without interruption on the
\* store d: the store it leaves (426-432 without a candidate group, else
\* the loop of 459-521 over every group, then 523-529)
MarkDuplicatesRun(d) ==
    LET hash_rows == DuplicateCandidates(d.hashvalues)
        b == MarkDuplicatesBegin(d, FALSE, hash_rows)
        F[k \in 0 .. Len(hash_rows)] ==
            IF k = 0 THEN b ELSE MarkDuplicatesIter(F[k - 1].db, F[k - 1].job, FALSE)
        e == F[Len(hash_rows)]
    IN  IF hash_rows = << >> THEN d ELSE MarkDuplicatesEnd(e.db, e.job).db

\* generate_and_mark_duplicates is called: 393-457. Without a store the
\* job ends with an error; without a candidate group it ends with done at
\* once (426-432), its last duplicate_count event carrying 0.
MarkDuplicatesStart(resume) ==
    LET hash_rows == DuplicateCandidates(db.hashvalues)
        r == MarkDuplicatesBegin(db, resume, hash_rows)
        ended(pc) == [kind |-> "mark_duplicates", pc |-> pc, resume |-> resume,
                      dry_run |-> FALSE, dir |-> "",
                      baseline |-> CountDuplicates(db.hashvalues),
                      duplicate_count |-> 0,
                      events |->
                          IF pc = "error"
                             THEN << Event("error", ""), Event("status", "error") >>
                             ELSE << Event("status", "Preparing duplicate marking"),
                                     Event("log", ""), Event("duplicate_count", ""),
                                     Event("log", ""), Event("status", "done"),
                                     Event("duplicate_count", ""),
                                     Event("done", "") >>]
    IN  /\ NoJobRunning
        /\ runs' = runs + 1
        /\ cancel_event' = FALSE
        /\ hist' = Remember(NoChain)
        /\ IF ~db.exists
              THEN job' = ended("error") /\ db' = db
              ELSE IF hash_rows = << >>
                      THEN job' = ended("done") /\ db' = db
                      ELSE job' = r.job /\ db' = r.db
        /\ UNCHANGED << disk, content, perms, destfiles >>

MarkDuplicatesStep ==
    /\ job.kind = "mark_duplicates" /\ job.pc = "loop"
    /\ job.i <= Len(job.hash_rows)
    /\ LET r == MarkDuplicatesIter(db, job, cancel_event)
       IN  db' = r.db /\ job' = r.job
    /\ UNCHANGED << cancel_event, disk, content, perms, destfiles, runs, hist >>

MarkDuplicatesFinish ==
    /\ job.kind = "mark_duplicates" /\ job.pc = "loop"
    /\ job.i > Len(job.hash_rows)
    /\ LET r == MarkDuplicatesEnd(db, job)
       IN  db' = r.db /\ job' = r.job
    /\ UNCHANGED << cancel_event, disk, content, perms, destfiles, runs, hist >>

-----------------------------------------------------------------------------
(***************************************************************************)
(* delete_duplicates_generator (563-699)                                   *)
(***************************************************************************)

\* The group-selection query of 587-592
DeleteCandidates(hv) ==
    SelectSeq(HashOrder, LAMBDA h :
        \E i \in RowsWithHash(hv, h) : hv[i].duplicate = "1" /\ hv[i].deleted = 0)

\* os.remove(path) succeeds
Removable(onDisk, path) == path \in onDisk /\ path \notin perms.readonly

\* Mutant of ToDelete: only the first candidate of a group is taken
ToDeleteFirstOnly(hv, visible) ==
    LET c == SelectSeq(Tail(visible),
                       LAMBDA i : hv[i].duplicate = "1" /\ hv[i].deleted = 0)
    IN  IF c = << >> THEN c ELSE << Head(c) >>

\* Lines 661-668: the first visible row is kept; the candidates are the
\* other visible rows with duplicate = 1 and deleted = 0
ToDelete(hv, visible) ==
    SelectSeq(Tail(visible), LAMBDA i : hv[i].duplicate = "1" /\ hv[i].deleted = 0)

\* Mutant of DeleteFiles: dry_run is not looked at
DeleteFilesNoDryRun(hv, onDisk, to_delete, dry_run) ==
    LET F[k \in 0 .. Len(to_delete)] ==
            IF k = 0
               THEN [hv |-> hv, disk |-> onDisk, deleted_count |-> 0, failed |-> 0,
                     events |-> << >>]
               ELSE LET s == F[k - 1]
                        rid == to_delete[k]
                        path == hv[rid].path
                    IN  IF Removable(s.disk, path)
                           THEN [s EXCEPT
                                   !.hv = [@ EXCEPT ![rid].deleted = 1],
                                   !.disk = @ \ {path},
                                   !.deleted_count = @ + 1,
                                   !.events = Append(@, Event("deleted", ""))]
                           ELSE [s EXCEPT !.failed = @ + 1,
                                          !.events = Append(@, Event("log", ""))]
    IN  F[Len(to_delete)]

\* Mutant of DeleteFiles: the row is flagged deleted whether or not the
\* file could be removed
DeleteFilesFlagAlways(hv, onDisk, to_delete, dry_run) ==
    [hv |-> [i \in DOMAIN hv |->
                IF i \in Range(to_delete) /\ ~dry_run
                   THEN [hv[i] EXCEPT !.deleted = 1] ELSE hv[i]],
     disk |-> IF dry_run THEN onDisk
              ELSE onDisk \ { hv[i].path : i \in { k \in Range(to_delete) :
                                                     Removable(onDisk, hv[k].path) } },
     deleted_count |-> Len(to_delete), failed |-> 0,
     events |-> [k \in DOMAIN to_delete |-> Event("deleted", "")]]

\* Lines 670-682 for the candidates of one group. A dry run only reports;
\* otherwise the file is removed and, when that succeeded, the row is
\* flagged deleted; a failed removal is logged.
DeleteFiles(hv, onDisk, to_delete, dry_run) ==
    LET F[k \in 0 .. Len(to_delete)] ==
            IF k = 0
               THEN [hv |-> hv, disk |-> onDisk, deleted_count |-> 0, failed |-> 0,
                     events |-> << >>]
               ELSE LET s == F[k - 1]
                        rid == to_delete[k]
                        path == hv[rid].path
                    IN  IF dry_run
                           THEN [s EXCEPT !.deleted_count = @ + 1,
                                          !.events = Append(@, Event("deleted", ""))]
                           ELSE IF Removable(s.disk, path)
                                   THEN [s EXCEPT
                                           !.hv = [@ EXCEPT ![rid].deleted = 1],
                                           !.disk = @ \ {path},
                                           !.deleted_count = @ + 1,
                                           !.events = Append(@, Event("deleted", ""))]
                                   ELSE [s EXCEPT !.failed = @ + 1,
                                                  !.events = Append(@, Event("log", ""))]
    IN  F[Len(to_delete)]

\* Lines 604-624 for a non-empty candidate list
DeleteDuplicatesBegin(d, resume, dry_run, hash_rows) ==
    LET total_groups == Len(hash_rows)
        last_hash == IF resume THEN GetMetadata(d.meta, "del_last_hash", "") ELSE ""
        processed_groups ==
            IF resume
               THEN Clamp(GetMetadata(d.meta, "del_processed_count", 0), total_groups)
               ELSE 0
        meta1 ==
            IF resume THEN d.meta
            ELSE SetAll(d.meta, << <<"operation_state", "delete_duplicates">>,
                                   <<"last_operation", "delete_duplicates">>,
                                   <<"del_last_hash", "">>,
                                   <<"del_processed_count", 0>>,
                                   <<"del_total_groups", total_groups>> >>)
    IN  [db  |-> [d EXCEPT !.meta = meta1],
         job |-> [kind |-> "delete_duplicates", pc |-> "loop", resume |-> resume,
                  dry_run |-> dry_run, dir |-> "",
                  hash_rows |-> hash_rows, i |-> 1,
                  total_groups |-> total_groups,
                  processed_groups |-> processed_groups,
                  last_hash |-> last_hash,
                  start_skipping |-> (resume /\ last_hash # ""),
                  deleted_count |-> 0, failed |-> 0,
                  events |->
                      << Event("status", "Preparing delete operation"),
                         Event("log", "") >>
                      \o (IF resume THEN << Event("log", "") >> ELSE << >>)
                      \o << Event("status", "Deleting duplicates") >>]]

\* Lines 626-687: one iteration of the loop for hash_rows[i]
DeleteDuplicatesIter(d, onDisk, j, cancelled) ==
    LET hash_value == j.hash_rows[j.i]
        processed_groups == j.processed_groups + 1
        group_rows == OrderByRowid(d.hashvalues, RowsWithHash(d.hashvalues, hash_value))
        visible == Visible(d.hashvalues, group_rows)
        r == DeleteFiles(d.hashvalues, onDisk, ToDelete(d.hashvalues, visible),
                         j.dry_run)
        mark == << <<"del_last_hash", hash_value>>,
                   <<"del_processed_count", processed_groups>> >>
        progress == ClampedProgress(processed_groups, j.total_groups)
    IN  IF cancelled
           THEN [db  |-> [d EXCEPT !.meta =
                            SetAll(@, << <<"operation_state", "cancelled">>,
                                         <<"last_operation", "delete_duplicates">>,
                                         <<"del_last_hash", hash_value>>,
                                         <<"del_processed_count", j.processed_groups>> >>)],
                 disk |-> onDisk,
                 job |-> [j EXCEPT !.pc = "cancelled",
                                   !.events = @ \o << Event("log", ""),
                                                      Event("status", "cancelled") >>]]
        ELSE IF j.start_skipping
           THEN [db  |-> d,
                 disk |-> onDisk,
                 job |-> [j EXCEPT !.i = @ + 1,
                                   !.processed_groups = processed_groups,
                                   !.start_skipping = (hash_value # j.last_hash)]]
        ELSE IF visible = << >>
           THEN [db  |-> [d EXCEPT !.meta = SetAll(@, mark)],
                 disk |-> onDisk,
                 job |-> [j EXCEPT !.i = @ + 1,
                                   !.processed_groups = processed_groups,
                                   !.events = Append(@, progress)]]
        ELSE [db  |-> [d EXCEPT !.hashvalues = r.hv, !.meta = SetAll(@, mark)],
              disk |-> r.disk,
              job |-> [j EXCEPT !.i = @ + 1,
                                !.processed_groups = processed_groups,
                                !.deleted_count = @ + r.deleted_count,
                                !.failed = @ + r.failed,
                                !.events = Append(@, progress) \o r.events]]

\* Lines 689-699: finalize
DeleteDuplicatesEnd(d, j) ==
    [db  |-> [d EXCEPT !.meta =
                SetAll(@, << <<"operation_state", "idle">>,
                             <<"last_operation", "delete_duplicates">>,
                             <<"del_last_hash", "">>,
                             <<"del_processed_count", j.processed_groups>>,
                             <<"del_total_groups", j.total_groups>> >>)],
     job |-> [j EXCEPT !.pc = "done",
                       !.events = @ \o << Event("status", "done"), Event("log", ""),
                                          Event("done", "") >>]]

\* delete_duplicates_generator is called: 572-624
DeleteDuplicatesStart(resume, dry_run) ==
    LET hash_rows == DeleteCandidates(db.hashvalues)
        r == DeleteDuplicatesBegin(db, resume, dry_run, hash_rows)
        ended(pc) == [kind |-> "delete_duplicates", pc |-> pc, resume |-> resume,
                      dry_run |-> dry_run, dir |-> "",
                      deleted_count |-> 0, failed |-> 0,
                      events |->
                          IF pc = "error"
                             THEN << Event("error", ""), Event("status", "error") >>
                             ELSE << Event("status", "Preparing delete operation"),
                                     Event("log", ""), Event("log", ""),
                                     Event("status", "done"), Event("done", "") >>]
    IN  /\ NoJobRunning
        /\ runs' = runs + 1
        /\ cancel_event' = FALSE
        /\ hist' = Remember(NoChain)
        /\ IF ~db.exists
              THEN job' = ended("error") /\ db' = db
              ELSE IF hash_rows = << >>
                      THEN job' = ended("done") /\ db' = db
                      ELSE job' = r.job /\ db' = r.db
        /\ UNCHANGED << disk, content, perms, destfiles >>

DeleteDuplicatesStep ==
    /\ job.kind = "delete_duplicates" /\ job.pc = "loop"
    /\ job.i <= Len(job.hash_rows)
    /\ LET r == DeleteDuplicatesIter(db, disk, job, cancel_event)
       IN  db' = r.db /\ job' = r.job /\ disk' = r.disk
    /\ UNCHANGED << cancel_event, content, perms, destfiles, runs, hist >>

DeleteDuplicatesFinish ==
    /\ job.kind = "delete_duplicates" /\ job.pc = "loop"
    /\ job.i > Len(job.hash_rows)
    /\ LET r == DeleteDuplicatesEnd(db, job)
       IN  db' = r.db /\ job' = r.job
    /\ UNCHANGED << cancel_event, disk, content, perms, destfiles, runs, hist >>

-----------------------------------------------------------------------------
(***************************************************************************)
(* group_files_generator (706-930)                                         *)
(***************************************************************************)

\* The choices of the "Grouping Behavior" combobox (1153)
GroupingModes == { "Group by Extension", "Group by Extension, (dot) prefix",
                   "Group by filename" }

\* The mode argument built at line 777
ModeOf(grouping_mode) ==
    IF grouping_mode = "Group by filename" THEN "filename"
    ELSE IF grouping_mode = "Group by Extension" THEN "ext"
    ELSE "ext_with_dot"

\* get_extension_variant (123-140)
GetExtensionVariant(path, mode) ==
    IF mode = "filename"
       THEN (IF Stem(path) # "" THEN Stem(path) ELSE "Miscellaneous")
    ELSE IF Suffix(path) = "" THEN "Miscellaneous"
    ELSE IF mode = "ext" THEN "txt"
    ELSE "dot txt"

\* The destination root of the runs; it lies outside the origin tree
DestDir == "D"

\* os.path.join(os.path.join(dest_dir, safe_ext), filename) (884-886); the
\* keys of this model hold no separator and no colon
DestPath(dest, extension, filename) == dest \o "/" \o extension \o "/" \o filename

\* ensure_schema_for_grouper (48-87): CREATE TABLE IF NOT EXISTS keeps a
\* hashvalues table that is already there
EnsureSchemaForGrouper(d) ==
    [d EXCEPT !.exists = TRUE, !.schema = IF @ = "none" THEN "full" ELSE @]

FilegroupPaths(fg) == { fg[i].originpath : i \in DOMAIN fg }

\* insert_filegroup_entry (148-158)
InsertFilegroupEntry(fg, originpath, filename, extension, filehash) ==
    IF originpath \in FilegroupPaths(fg) THEN fg
    ELSE Append(fg, [originpath |-> originpath, destinationpath |-> NULL,
                     filename |-> filename, extension |-> extension,
                     hash |-> filehash, copied |-> 0, duplicate |-> NULL])

\* Mutant of UpdateFilegroupCopied: the destination path is not stored
UpdateFilegroupCopiedNoPath(fg, originpath, destinationpath) ==
    [i \in DOMAIN fg |->
        IF fg[i].originpath = originpath
           THEN [fg[i] EXCEPT !.copied = 1] ELSE fg[i]]

\* update_filegroup_copied (161-164)
UpdateFilegroupCopied(fg, originpath, destinationpath) ==
    [i \in DOMAIN fg |->
        IF fg[i].originpath = originpath
           THEN [fg[i] EXCEPT !.copied = 1, !.destinationpath = destinationpath]
           ELSE fg[i]]

\* set_filegroup_duplicate (167-170)
SetFilegroupDuplicate(fg, originpath) ==
    [i \in DOMAIN fg |->
        IF fg[i].originpath = originpath
           THEN [fg[i] EXCEPT !.duplicate = "1"] ELSE fg[i]]

\* SELECT ... FROM filegroups WHERE copied = 0 ORDER BY id ASC (810)
Workset(fg) == SelectSeq(fg, LAMBDA e : e.copied = 0)

\* Mutant of SafeCopy: an existing destination is overwritten
SafeCopyOverwrite(files, dst, src_ok, src_content) ==
    IF src_ok
       THEN [copied |-> TRUE,
             files  |-> [p \in DOMAIN files \cup {dst} |->
                            IF p = dst THEN src_content ELSE files[p]]]
       ELSE [copied |-> FALSE, files |-> files]

\* safe_copy (109-120) with overwrite=False. files are the files below the
\* destination root with their contents, dst the path to write, src_ok
\* says that the origin file can be read, src_content is its content.
SafeCopy(files, dst, src_ok, src_content) ==
    IF dst \notin DOMAIN files /\ src_ok
       THEN [copied |-> TRUE,
             files  |-> [p \in DOMAIN files \cup {dst} |->
                            IF p = dst THEN src_content ELSE files[p]]]
       ELSE [copied |-> FALSE, files |-> files]

\* Lines 775-789: the scan of one path
GroupFilesScanIter(d, j, cancelled) ==
    LET path == j.file_list[j.i]
        extension == GetExtensionVariant(path, ModeOf(j.grouping_mode))
        stored_hash == GetHashForPath(d.hashvalues, path)
    IN  IF cancelled
           THEN [db  |-> [d EXCEPT !.meta =
                            SetMetadata(@, "fg_operation_state", "cancelled")],
                 job |-> [j EXCEPT !.pc = "cancelled",
                                   !.events = @ \o << Event("log", ""),
                                                      Event("status", "cancelled") >>]]
           ELSE [db  |-> [d EXCEPT !.filegroups =
                            InsertFilegroupEntry(@, path, Basename(path), extension,
                                                 stored_hash)],
                 job |-> [j EXCEPT !.i = @ + 1]]

\* Lines 791-822: the scan's closing metadata (fresh run only), then the
\* workset. An empty workset ends the job with done.
GroupFilesWorkset(d, j) ==
    LET meta1 ==
            IF j.resume THEN d.meta
            ELSE SetAll(d.meta, << <<"fg_total_files", Len(j.file_list)>>,
                                   <<"fg_processed_count", 0>>,
                                   <<"fg_last_path", "">>,
                                   <<"fg_operation_state", "ready">> >>)
        rows == Workset(d.filegroups)
        total == Len(rows)
        processed ==
            IF j.resume
               THEN Clamp(GetMetadata(meta1, "fg_processed_count", 0), total)
               ELSE 0
    IN  IF rows = << >>
           THEN [db  |-> [d EXCEPT !.meta = meta1],
                 job |-> [j EXCEPT !.pc = "done",
                                   !.events = @ \o << Event("log", ""),
                                                      Event("status", "done"),
                                                      Event("done", "") >>]]
           ELSE [db  |-> [d EXCEPT !.meta =
                            SetAll(meta1, << <<"fg_operation_state", "running">>,
                                             <<"fg_last_operation", "filegroup_copy">> >>)],
                 job |-> [j EXCEPT !.pc = "loop", !.rows = rows, !.i = 1,
                                   !.total = total, !.processed = processed,
                                   !.events = Append(@, Event("log", ""))]]

\* Mutant of CopyFailed: the entry of a failed copy is flagged copied
CopyFailedFlagged(d, hv1, mark, originpath, destpath) ==
    [d EXCEPT !.filegroups = UpdateFilegroupCopied(@, originpath, destpath),
              !.hashvalues = hv1, !.meta = SetAll(@, mark)]

\* Lines 912-918: the copy did not happen and no file is at the
\* destination path; the failure is logged, the entry is not written and
\* the checkpoint is persisted
CopyFailed(d, hv1, mark, originpath, destpath) ==
    [d EXCEPT !.hashvalues = hv1, !.meta = SetAll(@, mark)]

\* Lines 830-917: one iteration of the processing loop for rows[i].
\* insert_or_update_hashvalue selects the id column, which a hashvalues
\* table created by generate_sql does not have: the call then raises and
\* the exception leaves the generator.
GroupFilesIter(d, dst, j, cancelled) ==
    LET e == j.rows[j.i]
        originpath == e.originpath
        new_processed == j.new_processed + 1
        processed_total == j.processed + new_processed
        stored == GetHashForPath(d.hashvalues, originpath)
        computed == ComputeMd5(originpath)
        filehash == IF e.hash # NULL THEN e.hash
                    ELSE IF stored # NULL THEN stored ELSE computed
        insert855 == e.hash = NULL /\ stored = NULL /\ computed # NULL
        hv1 == IF insert855
                  THEN InsertOrUpdateHashvalue(d.hashvalues, originpath, filehash)
                  ELSE d.hashvalues
        is_duplicate == filehash # NULL /\ RowsWithHash(hv1, filehash) # {}
        destpath == DestPath(j.dest, e.extension, e.filename)
        cp == IF j.dry_run THEN [copied |-> FALSE, files |-> dst]
              ELSE SafeCopy(dst, destpath, Readable(originpath), content[originpath])
        mark == << <<"fg_last_path", originpath>>,
                   <<"fg_processed_count", processed_total>> >>
        next == [j EXCEPT !.i = @ + 1, !.new_processed = new_processed,
                          !.events = Append(@, ClampedProgress(processed_total,
                                                               j.total))]
    IN  IF cancelled
           THEN [db  |-> [d EXCEPT !.meta =
                            SetAll(@, << <<"fg_operation_state", "cancelled">>,
                                         <<"fg_last_path", originpath>>,
                                         <<"fg_processed_count",
                                           j.processed + j.new_processed>> >>)],
                 destfiles |-> dst,
                 job |-> [j EXCEPT !.pc = "cancelled",
                                   !.events = @ \o << Event("log", ""),
                                                      Event("status", "cancelled") >>]]
        ELSE IF insert855 /\ d.schema = "plain"
           THEN [db |-> d, destfiles |-> dst,
                 job |-> [next EXCEPT !.pc = "exception"]]
        ELSE IF is_duplicate /\ ~j.copy_duplicates
           THEN [db  |-> [d EXCEPT
                            !.filegroups = SetFilegroupDuplicate(@, originpath),
                            !.hashvalues = MarkHashvaluesDuplicate(hv1, filehash),
                            !.meta = SetAll(@, mark)],
                 destfiles |-> dst,
                 job |-> [next EXCEPT !.skipped_count = @ + 1,
                                      !.events = Append(@, Event("skipped_duplicate", ""))]]
        ELSE IF cp.copied /\ filehash # NULL /\ d.schema = "plain"
           THEN [db  |-> [d EXCEPT
                            !.filegroups =
                                UpdateFilegroupCopied(@, originpath, destpath)],
                 destfiles |-> cp.files,
                 job |-> [next EXCEPT !.pc = "exception", !.copied_count = @ + 1,
                                      !.events = Append(@, Event("copied", ""))]]
        ELSE IF cp.copied
           THEN [db  |-> [d EXCEPT
                            !.filegroups =
                                UpdateFilegroupCopied(@, originpath, destpath),
                            !.hashvalues =
                                IF filehash # NULL
                                   THEN InsertOrUpdateHashvalue(hv1, originpath, filehash)
                                   ELSE hv1,
                            !.meta = SetAll(@, mark)],
                 destfiles |-> cp.files,
                 job |-> [next EXCEPT !.copied_count = @ + 1,
                                      !.events = Append(@, Event("copied", ""))]]
        ELSE IF destpath \in DOMAIN dst
           THEN [db  |-> [d EXCEPT
                            !.filegroups =
                                UpdateFilegroupCopied(@, originpath, destpath),
                            !.hashvalues = hv1,
                            !.meta = SetAll(@, mark)],
                 destfiles |-> dst,
                 job |-> [next EXCEPT !.copied_count = @ + 1,
                                      !.events = Append(@, Event("copied", ""))]]
        ELSE [db  |-> CopyFailed(d, hv1, mark, originpath, destpath),
              destfiles |-> dst,
              job |-> [next EXCEPT !.events = Append(@, Event("log", ""))]]

\* Lines 919-930: finalize
GroupFilesEnd(d, j) ==
    [db  |-> [d EXCEPT !.meta =
                SetAll(@, << <<"fg_operation_state", "idle">>,
                             <<"fg_last_operation", "filegroup_copy">>,
                             <<"fg_last_path", "">>,
                             <<"fg_processed_count", j.processed + j.new_processed>>,
                             <<"fg_total_files", j.total>> >>)],
     job |-> [j EXCEPT !.pc = "done",
                       !.events = @ \o << Event("status", "done"), Event("log", ""),
                                          Event("done", "") >>]]

\* Lines 745-762: the generator's locals once the store is open; a fresh
\* run walks the origin tree (751-757), a resumed run does not
GroupFilesBegin(origin, grouping_mode, copy_duplicates, resume, dry_run, onDisk) ==
    [kind |-> "group_files", pc |-> "scan", resume |-> resume,
     dry_run |-> dry_run, dir |-> origin, dest |-> DestDir,
     grouping_mode |-> grouping_mode,
     copy_duplicates |-> copy_duplicates,
     file_list |-> IF resume THEN << >> ELSE Walk(origin, onDisk, FALSE),
     i |-> 1, rows |-> << >>, total |-> 0, processed |-> 0,
     new_processed |-> 0, copied_count |-> 0, skipped_count |-> 0,
     events |-> << Event("status", "Preparing filegroup operation"),
                   Event("log", "") >>
                \o (IF resume THEN << >> ELSE << Event("log", "") >>)]

\* group_files_generator run afresh (not as a dry run) and without
\* interruption on the store d and the destination files dst: the scan of
\* every path, the workset, every entry of it, then 919-930. The result is
\* the store and the destination files it leaves.
GroupFilesRun(d, dst, origin, grouping_mode, copy_duplicates, onDisk) ==
    LET j0 == GroupFilesBegin(origin, grouping_mode, copy_duplicates, FALSE,
                              FALSE, onDisk)
        S[k \in 0 .. Len(j0.file_list)] ==
            IF k = 0 THEN [db |-> EnsureSchemaForGrouper(d), job |-> j0]
            ELSE GroupFilesScanIter(S[k - 1].db, S[k - 1].job, FALSE)
        w == GroupFilesWorkset(S[Len(j0.file_list)].db, S[Len(j0.file_list)].job)
        P[k \in 0 .. Len(w.job.rows)] ==
            IF k = 0 THEN [db |-> w.db, destfiles |-> dst, job |-> w.job]
            ELSE IF P[k - 1].job.pc # "loop" THEN P[k - 1]
            ELSE GroupFilesIter(P[k - 1].db, P[k - 1].destfiles, P[k - 1].job, FALSE)
        e == P[Len(w.job.rows)]
    IN  IF e.job.pc = "loop"
           THEN [db |-> GroupFilesEnd(e.db, e.job).db, destfiles |-> e.destfiles]
           ELSE [db |-> e.db, destfiles |-> e.destfiles]

\* group_files_generator is called: 724-762. A fresh run goes on to scan
\* the origin tree, a resumed run to the workset at once.
GroupFilesStart(origin, grouping_mode, copy_duplicates, resume, dry_run) ==
    LET j0 == GroupFilesBegin(origin, grouping_mode, copy_duplicates, resume,
                              dry_run, disk)
        r == GroupFilesWorkset(EnsureSchemaForGrouper(db), j0)
    IN  /\ NoJobRunning
        /\ runs' = runs + 1
        /\ cancel_event' = FALSE
        /\ hist' = Remember(NoChain)
        /\ IF origin \notin ExistingStartDirs
              THEN /\ job' = [j0 EXCEPT
                              !.pc = "error",
                              !.events = << Event("error", ""),
                                            Event("status", "error") >>]
                   /\ db' = db
              ELSE IF resume
                      THEN job' = r.job /\ db' = r.db
                      ELSE job' = j0 /\ db' = EnsureSchemaForGrouper(db)
        /\ UNCHANGED << disk, content, perms, destfiles >>

\* The scan of one path (766-789)
GroupFilesScanStep ==
    /\ job.kind = "group_files" /\ job.pc = "scan"
    /\ job.i <= Len(job.file_list)
    /\ LET r == GroupFilesScanIter(db, job, cancel_event)
       IN  db' = r.db /\ job' = r.job
    /\ UNCHANGED << cancel_event, disk, content, perms, destfiles, runs, hist >>

\* The scan is over (791-822)
GroupFilesScanEnd ==
    /\ job.kind = "group_files" /\ job.pc = "scan"
    /\ job.i > Len(job.file_list)
    /\ LET r == GroupFilesWorkset(db, job)
       IN  db' = r.db /\ job' = r.job
    /\ UNCHANGED << cancel_event, disk, content, perms, destfiles, runs, hist >>

\* One entry of the workset (830-917)
GroupFilesStep ==
    /\ job.kind = "group_files" /\ job.pc = "loop"
    /\ job.i <= Len(job.rows)
    /\ LET r == GroupFilesIter(db, destfiles, job, cancel_event)
       IN  db' = r.db /\ job' = r.job /\ destfiles' = r.destfiles
    /\ UNCHANGED << cancel_event, disk, content, perms, runs, hist >>

\* The workset is exhausted (919-930)
GroupFilesFinish ==
    /\ job.kind = "group_files" /\ job.pc = "loop"
    /\ job.i > Len(job.rows)
    /\ LET r == GroupFilesEnd(db, job)
       IN  db' = r.db /\ job' = r.job
    /\ UNCHANGED << cancel_event, disk, content, perms, destfiles, runs, hist >>


\* ---- the walk of generate_sql over a tree with version-control names ----

\* The files of a tree below the start directory "T"
WalkFiles == { "T/.GIT/c", "T/.git/c", "T/.git/src/c", "T/GIT/c", "T/Git/c",
               "T/a", "T/git/c", "T/src/.git/c", "T/src/GIT", "T/src/b",
               "T/src/c" }

\* The names on the way from the start directory to the file, the file's
\* own name last (os.path.join(root, f), 242)
Parts(p) ==
    CASE p = "T/.GIT/c"     -> << ".GIT", "c" >>
      [] p = "T/.git/c"     -> << ".git", "c" >>
      [] p = "T/.git/src/c" -> << ".git", "src", "c" >>
      [] p = "T/GIT/c"      -> << "GIT", "c" >>
      [] p = "T/Git/c"      -> << "Git", "c" >>
      [] p = "T/a"          -> << "a" >>
      [] p = "T/git/c"      -> << "git", "c" >>
      [] p = "T/src/.git/c" -> << "src", ".git", "c" >>
      [] p = "T/src/GIT"    -> << "src", "GIT" >>
      [] p = "T/src/b"      -> << "src", "b" >>
      [] p = "T/src/c"      -> << "src", "c" >>

\* The names in the order list.sort() puts them (by code point: '.' before
\* the capitals, the capitals before the small letters)
NameOrder == << ".GIT", ".git", "GIT", "Git", "a", "b", "c", "git", "src" >>

\* str.upper()
Upper(n) ==
    CASE n = ".GIT" -> ".GIT"
      [] n = ".git" -> ".GIT"
      [] n = "GIT"  -> "GIT"
      [] n = "Git"  -> "GIT"
      [] n = "git"  -> "GIT"
      [] n = "a"    -> "A"
      [] n = "b"    -> "B"
      [] n = "c"    -> "C"
      [] n = "src"  -> "SRC"

\* The order in which the file system lists the names of a directory; it
\* is not defined, the listing is one of the two
Listings == { "ascending", "descending" }

Listed(S, listing) ==
    LET asc == SelectSeq(NameOrder, LAMBDA n : n \in S)
    IN  IF listing = "ascending" THEN asc ELSE Reverse(asc)

\* list.sort() (238, 239)
Sorted(names) == SelectSeq(NameOrder, LAMBDA n : n \in Range(names))

\* dirs[:] = [d for d in dirs if d.upper() != "GIT" and d != ".git"] (240)
KeptDirs(dirs) == SelectSeq(dirs, LAMBDA d : Upper(d) # "GIT" /\ d # ".git")

\* The names os.walk reports for the directory at root: the files in it
\* and the directories in it
FilesIn(root, onDisk) ==
    { Parts(p)[Len(root) + 1] :
         p \in { q \in onDisk : IsPrefix(root, Parts(q))
                                   /\ Len(Parts(q)) = Len(root) + 1 } }

DirsIn(root, onDisk) ==
    { Parts(p)[Len(root) + 1] :
         p \in { q \in onDisk : IsPrefix(root, Parts(q))
                                   /\ Len(Parts(q)) > Len(root) + 1 } }

Flatten(ss) ==
    LET F[k \in 0 .. Len(ss)] == IF k = 0 THEN << >> ELSE F[k - 1] \o ss[k]
    IN  F[Len(ss)]

\* The loop of 236-242 from the directory at root: os.walk is top-down, so
\* the files of the directory come first and then, in the order the pruned
\* and sorted dirs list has, the walk of every directory left in it
RECURSIVE OsWalk(_, _, _)
OsWalk(root, onDisk, listing) ==
    LET files == Sorted(Listed(FilesIn(root, onDisk), listing))
        dirs  == KeptDirs(Sorted(Listed(DirsIn(root, onDisk), listing)))
        here  == [k \in 1 .. Len(files) |->
                     CHOOSE p \in onDisk : Parts(p) = Append(root, files[k])]
    IN  here \o Flatten([k \in 1 .. Len(dirs) |->
                            OsWalk(Append(root, dirs[k]), onDisk, listing)])

\* generate_sql is called on the tree (226-301), afresh
GenerateSqlStartTree(listing) ==
    LET file_list == OsWalk(<< >>, disk, listing)
        r == GenerateSqlBegin(db, "T", FALSE, file_list)
    IN  /\ NoJobRunning
        /\ runs' = runs + 1
        /\ cancel_event' = FALSE
        /\ hist' = Remember(NoChain)
        /\ IF file_list = << >>
              THEN /\ job' = [kind |-> "generate_sql", pc |-> "error",
                              resume |-> FALSE, dry_run |-> FALSE, dir |-> "T",
                              events |-> << Event("status", "Scanning filesystem"),
                                            Event("log", ""), Event("error", ""),
                                            Event("status", "error") >>]
                   /\ db' = db
              ELSE /\ job' = r.job
                   /\ db' = r.db
        /\ UNCHANGED << disk, content, perms, destfiles >>
-----------------------------------------------------------------------------
(***************************************************************************)
(* Initial states and specifications                                       *)
(***************************************************************************)

CtlIdle ==
    /\ task_active = FALSE
    /\ thr = [t \in Threads |-> ThrInit]

GuiIdle ==
    /\ origin_dir = << >>
    /\ dest_dir = << >>
    /\ fg_launch = FgIdle
    /\ dialog = "none"

PruneIdleInit ==
    /\ tree = [dirs |-> {RootDir}, files |-> {}, unremovable |-> {}]
    /\ prune = PruneIdle

JobsIdle ==
    /\ disk = {}
    /\ content = [p \in Files |-> "A"]
    /\ perms = [unreadable |-> {}, readonly |-> {}]
    /\ destfiles = << >>
    /\ db = EmptyDb
    /\ job = JobIdle
    /\ runs = 0
    /\ hist = HistIdle
    /\ job2 = JobIdle

\* ---- the runner ----
InitCtl ==
    /\ CtlIdle
    /\ cancel_event = FALSE
    /\ GuiIdle /\ PruneIdleInit /\ JobsIdle

NextCtl ==
    \/ \E t \in Threads, n \in 0 .. MaxIters :
          StartRequest(t, n) /\ UNCHANGED << guiVars, pruneVars, jobVars >>
    \/ \E t \in Threads :
          ThreadRunnerCheck(t) /\ UNCHANGED << guiVars, pruneVars, jobVars >>
    \/ \E t \in Threads :
          ThreadRunnerAcquire(t) /\ UNCHANGED << guiVars, pruneVars, jobVars >>
    \/ \E t \in Threads :
          GeneratorStep(t) /\ UNCHANGED << guiVars, pruneVars, jobVars >>
    \/ \E t \in Threads, how \in {"error", "exception"} :
          GeneratorFail(t, how) /\ UNCHANGED << guiVars, pruneVars, jobVars >>
    \/ \E t \in Threads :
          ThreadRunnerFinally(t) /\ UNCHANGED << guiVars, pruneVars, jobVars >>
    \/ CancelAction /\ UNCHANGED << guiVars, pruneVars, jobVars >>

SpecCtl == InitCtl /\ [][NextCtl]_vars

\* thread_runner runs on its own thread: once the generator has terminated
\* the thread goes on into the finally clause (1473-1475), whatever the
\* other threads and the user do.
FairFinally ==
    \A t \in Threads :
       WF_vars(ThreadRunnerFinally(t)
                  /\ UNCHANGED << guiVars, pruneVars, jobVars >>)

SpecCtlFair == SpecCtl /\ FairFinally

\* ---- the FileGrouper start guard ----
InitGui ==
    /\ GuiIdle
    /\ cancel_event = FALSE
    /\ CtlIdle /\ PruneIdleInit /\ JobsIdle

NextGui ==
    \/ \E o \in EntryTexts, d \in EntryTexts :
          EnterPaths(o, d) /\ UNCHANGED << cancel_event, ctlVars, pruneVars, jobVars >>
    \/ RunFilegroup /\ UNCHANGED << cancel_event, ctlVars, pruneVars, jobVars >>
    \/ ResumeFilegroup /\ UNCHANGED << cancel_event, ctlVars, pruneVars, jobVars >>
    \/ GroupFilesValidate /\ UNCHANGED << cancel_event, ctlVars, pruneVars, jobVars >>
    \/ GroupFilesAdvance /\ UNCHANGED << cancel_event, ctlVars, pruneVars, jobVars >>

SpecGui == InitGui /\ [][NextGui]_vars

\* ---- the directory cleaner ----
InitPrune ==
    /\ tree \in { t \in Trees : TreeOk(t) }
    /\ prune = PruneIdle
    /\ cancel_event = FALSE
    /\ CtlIdle /\ GuiIdle /\ JobsIdle

NextPrune ==
    \/ \E dry \in BOOLEAN, order \in {"asc", "desc"} :
          PruneStart(dry, order) /\ UNCHANGED << ctlVars, guiVars, jobVars >>
    \/ PruneStep /\ UNCHANGED << ctlVars, guiVars, jobVars >>
    \/ PruneFinish /\ UNCHANGED << ctlVars, guiVars, jobVars >>
    \/ PruneCancel /\ UNCHANGED << ctlVars, guiVars, jobVars >>

SpecPrune == InitPrune /\ [][NextPrune]_vars


\* ---- the store jobs ----
Others == << ctlVars, guiVars, pruneVars, job2 >>

\* The files, contents and permissions the runs start from
PermChoices == { [unreadable |-> {}, readonly |-> {}],
                 [unreadable |-> {"T/b/x.txt"}, readonly |-> {}],
                 [unreadable |-> {}, readonly |-> {"T/b/x.txt"}] }

DiskChoices == { Files \ {"T/b/y.txt"}, Files \ {"T/b/.gitignore"} }

\* A content for every file on disk (a file that is absent has none: "A"
\* stands in its place and is never read)
ContentChoices(d) ==
    { c \in [Files -> Contents] : \A p \in Files \ d : c[p] = "A" }

InitJobs ==
    /\ disk \in DiskChoices
    /\ content \in ContentChoices(disk)
    /\ perms \in PermChoices
    /\ destfiles = << >>
    /\ db = EmptyDb
    /\ job = JobIdle
    /\ runs = 0
    /\ hist = HistIdle
    /\ job2 = JobIdle
    /\ cancel_event = FALSE
    /\ CtlIdle /\ GuiIdle /\ PruneIdleInit

\* -- generate_sql alone: fresh, cancelled and resumed runs --
MaxIndexRuns == 3

NextIndex ==
    \/ \E start_dir \in StartDirs, resume \in BOOLEAN :
          runs < MaxIndexRuns /\ GenerateSqlStart(start_dir, resume) /\ UNCHANGED Others
    \/ GenerateSqlStep /\ UNCHANGED Others
    \/ GenerateSqlFinish /\ UNCHANGED Others
    \/ CancelJob /\ UNCHANGED Others

SpecIndex == InitJobs /\ [][NextIndex]_vars

\* -- indexing, duplicate marking and deletion on one store --
MaxDedupRuns == 4

NextDedup ==
    \/ \E resume \in BOOLEAN :
          runs < MaxDedupRuns /\ GenerateSqlStart("T", resume) /\ UNCHANGED Others
    \/ GenerateSqlStep /\ UNCHANGED Others
    \/ GenerateSqlFinish /\ UNCHANGED Others
    \/ \E resume \in BOOLEAN :
          runs < MaxDedupRuns /\ MarkDuplicatesStart(resume) /\ UNCHANGED Others
    \/ MarkDuplicatesStep /\ UNCHANGED Others
    \/ MarkDuplicatesFinish /\ UNCHANGED Others
    \/ \E resume \in BOOLEAN, dry_run \in BOOLEAN :
          runs < MaxDedupRuns /\ DeleteDuplicatesStart(resume, dry_run) /\ UNCHANGED Others
    \/ DeleteDuplicatesStep /\ UNCHANGED Others
    \/ DeleteDuplicatesFinish /\ UNCHANGED Others
    \/ CancelJob /\ UNCHANGED Others

SpecDedup == InitJobs /\ [][NextDedup]_vars

\* -- all four store jobs, each run to its end --
MaxRuns == 4

JobDirs == { "T", "T/b" }

Init ==
    /\ InitJobs
    /\ perms.unreadable = {}

Next ==
    \/ \E start_dir \in JobDirs :
          runs < MaxRuns /\ GenerateSqlStart(start_dir, FALSE) /\ UNCHANGED Others
    \/ GenerateSqlStep /\ UNCHANGED Others
    \/ GenerateSqlFinish /\ UNCHANGED Others
    \/ runs < MaxRuns /\ MarkDuplicatesStart(FALSE) /\ UNCHANGED Others
    \/ MarkDuplicatesStep /\ UNCHANGED Others
    \/ MarkDuplicatesFinish /\ UNCHANGED Others
    \/ runs < MaxRuns /\ DeleteDuplicatesStart(FALSE, FALSE) /\ UNCHANGED Others
    \/ DeleteDuplicatesStep /\ UNCHANGED Others
    \/ DeleteDuplicatesFinish /\ UNCHANGED Others
    \/ \E origin \in JobDirs, copy \in BOOLEAN :
          runs < MaxRuns /\ GroupFilesStart(origin, "Group by Extension", copy, FALSE, FALSE)
             /\ UNCHANGED Others
    \/ GroupFilesScanStep /\ UNCHANGED Others
    \/ GroupFilesScanEnd /\ UNCHANGED Others
    \/ GroupFilesStep /\ UNCHANGED Others
    \/ GroupFilesFinish /\ UNCHANGED Others

Spec == Init /\ [][Next]_vars

\* -- the three-step pipeline on an empty store: generate_sql, then
\* -- generate_and_mark_duplicates, then delete_duplicates_generator, each
\* -- started afresh once the one before has completed --
Completed(kind) == job.kind = kind /\ job.pc = "done"

NextPipeline ==
    \/ runs = 0 /\ GenerateSqlStart("T", FALSE) /\ UNCHANGED Others
    \/ GenerateSqlStep /\ UNCHANGED Others
    \/ GenerateSqlFinish /\ UNCHANGED Others
    \/ runs = 1 /\ Completed("generate_sql") /\ MarkDuplicatesStart(FALSE)
          /\ UNCHANGED Others
    \/ MarkDuplicatesStep /\ UNCHANGED Others
    \/ MarkDuplicatesFinish /\ UNCHANGED Others
    \/ \E dry_run \in BOOLEAN :
          runs = 2 /\ Completed("mark_duplicates")
             /\ DeleteDuplicatesStart(FALSE, dry_run) /\ UNCHANGED Others
    \/ DeleteDuplicatesStep /\ UNCHANGED Others
    \/ DeleteDuplicatesFinish /\ UNCHANGED Others

SpecPipeline == InitJobs /\ [][NextPipeline]_vars

\* -- the five jobs and their event streams: one job at a time, every job
\* -- fresh or resumed, cancelled or not. The cleaner shares no state with
\* -- the store jobs: it is run on a directory tree whose origin holds no
\* -- file, or on a tree without subdirectories, before any store job. --
MaxEventRuns == 3

EventTrees ==
    { t \in Trees : TreeOk(t) /\ t.dirs \subseteq {RootDir, <<"a">>, <<"a", "b">>, <<"d">>} }

InitEvents ==
    /\ \/ /\ disk \in DiskChoices
          /\ content \in ContentChoices(disk)
          /\ perms \in PermChoices
          /\ tree = [dirs |-> {RootDir}, files |-> {}, unremovable |-> {}]
       \/ /\ disk = {}
          /\ content = [p \in Files |-> "A"]
          /\ perms = [unreadable |-> {}, readonly |-> {}]
          /\ tree \in EventTrees
    /\ prune = PruneIdle
    /\ destfiles = << >>
    /\ db = EmptyDb
    /\ job = JobIdle
    /\ runs = 0
    /\ hist = HistIdle
    /\ job2 = JobIdle
    /\ cancel_event = FALSE
    /\ CtlIdle /\ GuiIdle

\* A store job may be started: fewer than MaxEventRuns were, and the
\* cleaner has not been started
MayStart == runs < MaxEventRuns /\ prune.pc = "idle"

NextEvents ==
    \/ \E resume \in BOOLEAN :
          MayStart /\ GenerateSqlStart("T", resume)
             /\ UNCHANGED Others
    \/ GenerateSqlStep /\ UNCHANGED Others
    \/ GenerateSqlFinish /\ UNCHANGED Others
    \/ \E resume \in BOOLEAN :
          MayStart /\ MarkDuplicatesStart(resume)
             /\ UNCHANGED Others
    \/ MarkDuplicatesStep /\ UNCHANGED Others
    \/ MarkDuplicatesFinish /\ UNCHANGED Others
    \/ \E resume \in BOOLEAN :
          MayStart /\ DeleteDuplicatesStart(resume, FALSE)
             /\ UNCHANGED Others
    \/ DeleteDuplicatesStep /\ UNCHANGED Others
    \/ DeleteDuplicatesFinish /\ UNCHANGED Others
    \/ \E copy \in BOOLEAN, resume \in BOOLEAN :
          MayStart /\ GroupFilesStart("T", "Group by Extension", copy, resume, FALSE)
             /\ UNCHANGED Others
    \/ GroupFilesScanStep /\ UNCHANGED Others
    \/ GroupFilesScanEnd /\ UNCHANGED Others
    \/ GroupFilesStep /\ UNCHANGED Others
    \/ GroupFilesFinish /\ UNCHANGED Others
    \/ CancelJob /\ UNCHANGED Others
    \/ \E dry \in BOOLEAN, order \in {"asc", "desc"} :
          runs = 0 /\ PruneStart(dry, order)
             /\ UNCHANGED << ctlVars, guiVars, jobVars >>
    \/ PruneStep /\ UNCHANGED << ctlVars, guiVars, jobVars >>
    \/ PruneFinish /\ UNCHANGED << ctlVars, guiVars, jobVars >>
    \/ PruneCancel /\ UNCHANGED << ctlVars, guiVars, jobVars >>

SpecEvents == InitEvents /\ [][NextEvents]_vars

\* -- two generate_sql generators on one store at the same time. The
\* -- runner does not exclude it: thread_runner tests task_active (1418)
\* -- and sets it (1434) in separate steps, and cancel_action clears it
\* -- (1499) while the cancelled generator still runs. The generators
\* -- interleave between iterations (every iteration ends with a commit). --
RaceDirs == { "T", "T/b" }

NextRace ==
    \/ \E start_dir \in RaceDirs :
          runs = 0 /\ GenerateSqlStart(start_dir, FALSE) /\ UNCHANGED Others
    \/ GenerateSqlStep /\ UNCHANGED Others
    \/ GenerateSqlFinish /\ UNCHANGED Others
    \/ \E start_dir \in RaceDirs, resume \in BOOLEAN :
          GenerateSqlStartSecond(start_dir, resume)
             /\ UNCHANGED << ctlVars, guiVars, pruneVars >>
    \/ GenerateSqlStepSecond /\ UNCHANGED << ctlVars, guiVars, pruneVars >>
    \/ GenerateSqlFinishSecond /\ UNCHANGED << ctlVars, guiVars, pruneVars >>

SpecRace == InitJobs /\ [][NextRace]_vars

\* -- group_files_generator: fresh, resumed, cancelled and dry runs, on an
\* -- empty store or on one that generate_sql has filled --
MaxGroupRuns == 2

NextGroup ==
    \/ runs < MaxGroupRuns /\ GenerateSqlStart("T", FALSE) /\ UNCHANGED Others
    \/ GenerateSqlStep /\ UNCHANGED Others
    \/ GenerateSqlFinish /\ UNCHANGED Others
    \/ \E origin \in JobDirs, copy \in BOOLEAN, resume \in BOOLEAN, dry_run \in BOOLEAN :
          runs < MaxGroupRuns
             /\ GroupFilesStart(origin, "Group by Extension", copy, resume, dry_run)
             /\ UNCHANGED Others
    \/ GroupFilesScanStep /\ UNCHANGED Others
    \/ GroupFilesScanEnd /\ UNCHANGED Others
    \/ GroupFilesStep /\ UNCHANGED Others
    \/ GroupFilesFinish /\ UNCHANGED Others
    \/ CancelJob /\ UNCHANGED Others

InitGroup ==
    /\ InitJobs
    /\ perms.readonly = {}

SpecGroup == InitGroup /\ [][NextGroup]_vars


\* -- calls on a missing or empty start directory or on a missing store,
\* -- on an empty store or after earlier runs, completed or cancelled --
MaxConfigRuns == 3

\* The trees of InitJobs and one whose directory T/b holds no file
InitConfig ==
    /\ disk \in DiskChoices \cup { {"T/a/x.txt"} }
    /\ content \in ContentChoices(disk)
    /\ perms = [unreadable |-> {}, readonly |-> {}]
    /\ destfiles = << >>
    /\ db = EmptyDb
    /\ job = JobIdle
    /\ runs = 0
    /\ hist = HistIdle
    /\ job2 = JobIdle
    /\ cancel_event = FALSE
    /\ CtlIdle /\ GuiIdle /\ PruneIdleInit

NextConfig ==
    \/ \E start_dir \in StartDirs, resume \in BOOLEAN :
          runs < MaxConfigRuns /\ GenerateSqlStart(start_dir, resume)
             /\ UNCHANGED Others
    \/ GenerateSqlStep /\ UNCHANGED Others
    \/ GenerateSqlFinish /\ UNCHANGED Others
    \/ \E resume \in BOOLEAN :
          runs < MaxConfigRuns /\ MarkDuplicatesStart(resume) /\ UNCHANGED Others
    \/ MarkDuplicatesStep /\ UNCHANGED Others
    \/ MarkDuplicatesFinish /\ UNCHANGED Others
    \/ \E resume \in BOOLEAN :
          runs < MaxConfigRuns /\ DeleteDuplicatesStart(resume, FALSE)
             /\ UNCHANGED Others
    \/ DeleteDuplicatesStep /\ UNCHANGED Others
    \/ DeleteDuplicatesFinish /\ UNCHANGED Others
    \/ \E origin \in {"T", "T/zz"}, resume \in BOOLEAN :
          runs < MaxConfigRuns
             /\ GroupFilesStart(origin, "Group by Extension", FALSE, resume, FALSE)
             /\ UNCHANGED Others
    \/ GroupFilesScanStep /\ UNCHANGED Others
    \/ GroupFilesScanEnd /\ UNCHANGED Others
    \/ GroupFilesStep /\ UNCHANGED Others
    \/ GroupFilesFinish /\ UNCHANGED Others
    \/ CancelJob /\ UNCHANGED Others

SpecConfig == InitConfig /\ [][NextConfig]_vars

\* -- group_files_generator on an empty store, cancelled and continued by
\* -- resume_filegroup with the settings of the cancelled run --
MaxResumeRuns == 3

NextGroupResume ==
    \/ \E copy \in BOOLEAN :
          runs = 0 /\ GroupFilesStart("T", "Group by Extension", copy, FALSE, FALSE)
             /\ UNCHANGED Others
    \/ runs < MaxResumeRuns /\ job.kind = "group_files" /\ job.pc = "cancelled"
          /\ GroupFilesStart(job.dir, job.grouping_mode, job.copy_duplicates,
                             TRUE, FALSE)
          /\ UNCHANGED Others
    \/ GroupFilesScanStep /\ UNCHANGED Others
    \/ GroupFilesScanEnd /\ UNCHANGED Others
    \/ GroupFilesStep /\ UNCHANGED Others
    \/ GroupFilesFinish /\ UNCHANGED Others
    \/ CancelJob /\ UNCHANGED Others

SpecGroupResume == InitGroup /\ [][NextGroupResume]_vars

\* -- generate_sql on a store that can fail: at open time and on an insert --
MaxStorageRuns == 2

NextStorage ==
    \/ \E start_dir \in StartDirs, resume \in BOOLEAN :
          runs < MaxStorageRuns /\ GenerateSqlStart(start_dir, resume) /\ UNCHANGED Others
    \/ \E start_dir \in StartDirs, resume \in BOOLEAN :
          runs < MaxStorageRuns /\ GenerateSqlStartOpenFails(start_dir, resume)
             /\ UNCHANGED Others
    \/ GenerateSqlStep /\ UNCHANGED Others
    \/ GenerateSqlStepInsertFails /\ UNCHANGED Others
    \/ GenerateSqlFinish /\ UNCHANGED Others
    \/ CancelJob /\ UNCHANGED Others

SpecStorage == InitJobs /\ [][NextStorage]_vars

\* -- generate_sql over trees with version-control directories --
MaxWalkRuns == 2

InitWalk ==
    /\ disk \in SUBSET WalkFiles
    /\ content = [p \in WalkFiles |-> "A"]
    /\ perms = [unreadable |-> {}, readonly |-> {}]
    /\ destfiles = << >>
    /\ db = EmptyDb
    /\ job = JobIdle
    /\ runs = 0
    /\ hist = HistIdle
    /\ job2 = JobIdle
    /\ cancel_event = FALSE
    /\ CtlIdle /\ GuiIdle /\ PruneIdleInit

NextWalk ==
    \/ \E listing \in Listings :
          runs < MaxWalkRuns /\ GenerateSqlStartTree(listing) /\ UNCHANGED Others
    \/ GenerateSqlStep /\ UNCHANGED Others
    \/ GenerateSqlFinish /\ UNCHANGED Others

SpecWalk == InitWalk /\ [][NextWalk]_vars

\* -- two overlapping generate_sql runs, then marking, then deleting --
NextRaceDelete ==
    \/ \E start_dir \in RaceDirs :
          runs = 0 /\ GenerateSqlStart(start_dir, FALSE) /\ UNCHANGED Others
    \/ GenerateSqlStep /\ UNCHANGED Others
    \/ GenerateSqlFinish /\ UNCHANGED Others
    \/ \E start_dir \in RaceDirs :
          GenerateSqlStartSecond(start_dir, FALSE)
             /\ UNCHANGED << ctlVars, guiVars, pruneVars >>
    \/ GenerateSqlStepSecond /\ UNCHANGED << ctlVars, guiVars, pruneVars >>
    \/ GenerateSqlFinishSecond /\ UNCHANGED << ctlVars, guiVars, pruneVars >>
    \/ runs = 1 /\ job2.pc # "loop" /\ MarkDuplicatesStart(FALSE) /\ UNCHANGED Others
    \/ MarkDuplicatesStep /\ UNCHANGED Others
    \/ MarkDuplicatesFinish /\ UNCHANGED Others
    \/ runs = 2 /\ DeleteDuplicatesStart(FALSE, FALSE) /\ UNCHANGED Others
    \/ DeleteDuplicatesStep /\ UNCHANGED Others
    \/ DeleteDuplicatesFinish /\ UNCHANGED Others

SpecRaceDelete == InitJobs /\ [][NextRaceDelete]_vars
-----------------------------------------------------------------------------
(***************************************************************************)
(* The claims                                                              *)
(***************************************************************************)

Running == { t \in Threads : thr[t].pc = "run" }

\* C1 (as stated): at every moment at most one job generator is between
\* its start and its end.
C1_AtMostOneGenerator == Cardinality(Running) <= 1

\* C2: a start request whose thread_runner observes task_active = True is
\* rejected and not queued: from the observation on it never reaches the
\* generator (it stays rejected), and the step that rejects it leaves
\* task_active as it was.
C2_BusyRejected ==
    [][ \A t \in Threads :
          /\ (thr[t].pc = "check" /\ task_active /\ thr'[t] # thr[t])
                => (thr'[t].pc = "rejected" /\ task_active' = task_active)
          /\ thr[t].sawBusy => (thr'[t].pc = "rejected" /\ thr'[t].sawBusy)
      ]_vars

\* C2 witness: a request was rejected while another request's generator runs
C2_Witness ==
    \E t \in Threads, u \in Threads :
        t # u /\ thr[t].pc = "rejected" /\ thr[u].pc = "run" /\ task_active

\* C8 (as stated): when the destination is the origin or lies inside it,
\* no launched group_files_generator scans or copies a file.
C8_RefusesNestedDestination ==
    (fg_launch.kind # "none" /\ SameOrNested(fg_launch.dest, fg_launch.origin))
        => fg_launch.phase \notin {"scan", "process", "done"}

\* The directories of the initial tree that hold no file, directly or below
HoldsNoFile(d) ==
    \A e \in prune.dirs0 : IsPrefix(d, e) => e \notin tree.files

\* C10: after the cleaner completes (no dry run, no removal failure, not
\* cancelled), a directory below the root is gone exactly when it held no
\* file directly or in a descendant, and the root is still there.
C10_PrunesExactlyEmptySubtrees ==
    (prune.pc = "done" /\ ~prune.dry_run /\ tree.unremovable = {})
        => /\ RootDir \in tree.dirs
           /\ \A d \in prune.dirs0 \ {RootDir} :
                  (d \notin tree.dirs) <=> HoldsNoFile(d)

\* C10 witness: a completed run that removed a chain of three nested
\* directories and kept a directory holding a file
C10_Witness ==
    /\ prune.pc = "done" /\ ~prune.dry_run /\ tree.unremovable = {}
    /\ {<<"a">>, <<"a", "b">>, <<"a", "b", "c">>, <<"d">>} \subseteq prune.dirs0
    /\ tree.dirs = {RootDir, <<"d">>}


-----------------------------------------------------------------------------
(***************************************************************************)
(* Claims about the store jobs                                             *)
(***************************************************************************)

Records == Range(db.hashvalues)

\* C3: when a generate_sql run that was cancelled at a file boundary is
\* continued with resume=True until it completes, on the unchanged tree,
\* the store holds the same set of records as one uninterrupted run leaves.
C3_ResumeEqualsUninterrupted ==
    (job.kind = "generate_sql" /\ job.pc = "done" /\ hist.chain.on
        /\ hist.chain.resumed)
        => Records = Range(hist.chain.expect)

\* A run cancelled after its first file and resumed on an empty store: the
\* resumed run skipped one recorded path and inserted the other two.
C3_Witness ==
    /\ job.kind = "generate_sql" /\ job.pc = "done"
    /\ hist.chain.on /\ hist.chain.resumed
    /\ runs = 2
    /\ job.total_files = 3 /\ job.processed = 4
    /\ Len(db.hashvalues) = 3

\* The run follows a generate_sql run that completed on the same directory
\* and is started with resume=False
RebuildRun ==
    /\ job.kind = "generate_sql" /\ job.pc \in {"loop", "done", "cancelled"}
    /\ ~job.resume
    /\ hist.prev.kind = "generate_sql" /\ hist.prev.pc = "done"
    /\ hist.prev.dir = job.dir

\* C4: a generate_sql run with resume=False that follows a completed
\* generate_sql run on the same unchanged tree never changes the records:
\* no step of it inserts a record or changes a hash, row, duplicate or
\* deleted value.
C4_RebuildChangesNothing ==
    [][ RebuildRun' => db'.hashvalues = db.hashvalues ]_vars

C4_Witness ==
    /\ RebuildRun /\ job.pc = "done"
    /\ job.total_files = 3
    /\ Len(db.hashvalues) = 3

\* The active records of a hash. Records whose path the job filters out
\* (491) are left aside: the statement is read in the code's favour.
ActiveWithHash(hv, h) ==
    { i \in RowsWithHash(hv, h) : hv[i].deleted = 0 /\ ~GitFiltered(hv[i].path) }

\* C5: when generate_and_mark_duplicates has completed, every hash with at
\* least two active records has exactly one active record whose duplicate
\* is not 1, that record has the lowest row of them, and every other one
\* has duplicate = 1.
C5_OneCanonicalPerGroup ==
    (job.kind = "mark_duplicates" /\ job.pc = "done")
        => \A h \in Range(HashOrder) :
              LET act == ActiveWithHash(db.hashvalues, h)
              IN  Cardinality(act) >= 2
                    => \E c \in act :
                          /\ db.hashvalues[c].duplicate # "1"
                          /\ \A o \in act :
                                db.hashvalues[c].row <= db.hashvalues[o].row
                          /\ \A o \in act \ {c} :
                                db.hashvalues[o].duplicate = "1"

\* The record's row is below the row of every other record of its hash
LowestSequence(hv, i) ==
    \A o \in RowsWithHash(hv, hv[i].hash) \ {i} : hv[i].row < hv[o].row

\* C6: no step of delete_duplicates_generator removes the file of, or sets
\* deleted = 1 on, the record with the lowest row of its hash group.
C6_LowestSequenceKept ==
    [][ (job.kind = "delete_duplicates" /\ job.pc = "loop")
          => \A i \in DOMAIN db.hashvalues :
                LowestSequence(db.hashvalues, i)
                  => /\ db'.hashvalues[i].deleted = db.hashvalues[i].deleted
                     /\ (db.hashvalues[i].path \in disk
                            => db.hashvalues[i].path \in disk')
      ]_vars

\* The run is not a dry run and follows a delete_duplicates_generator run
\* that was started afresh, was no dry run and completed
SecondDeleteRun ==
    /\ job.kind = "delete_duplicates" /\ job.pc \in {"loop", "done", "cancelled"}
    /\ ~job.dry_run
    /\ hist.prev.kind = "delete_duplicates" /\ hist.prev.pc = "done"
    /\ ~hist.prev.dry_run /\ ~hist.prev.resume

C9_CopiedMatchesOrigin ==
    \A k \in DOMAIN db.filegroups :
        LET e == db.filegroups[k]
        IN  e.copied = 1
              => /\ e.destinationpath \in DOMAIN destfiles
                 /\ Md5(destfiles[e.destinationpath]) = Md5(content[e.originpath])

-----------------------------------------------------------------------------
(***************************************************************************)
(* The pipeline generate_sql, generate_and_mark_duplicates,                *)
(* delete_duplicates_generator                                             *)
(***************************************************************************)

\* The position of a file in walk order
WalkIndex(p) == CHOOSE k \in DOMAIN AllFiles : AllFiles[k] = p

\* The record of a path (paths are unique in a store filled by generate_sql)
RecordOf(p) == CHOOSE r \in Records : r.path = p

\* The three jobs have completed, the deleter not as a dry run
PipelineDone ==
    /\ runs = 3
    /\ Completed("delete_duplicates") /\ ~job.dry_run

\* The files of the tree the pipeline started on: a file leaves the disk
\* only when the deleter removes it, and then its record stays
TreeFiles == disk \cup ExistingPaths(db.hashvalues)

\* The outcome the pipeline is to give for the files S, grouped by
\* content; the removal of the files in K fails
PipelineOutcome(S, K) ==
    \A p \in S :
       LET same  == { q \in S : content[q] = content[p] }
           first == \A q \in same : WalkIndex(p) <= WalkIndex(q)
       IN  /\ p \in ExistingPaths(db.hashvalues)
           /\ IF first
                 THEN /\ p \in disk
                      /\ RecordOf(p).deleted = 0
                      /\ RecordOf(p).duplicate # "1"
                 ELSE /\ RecordOf(p).duplicate = "1"
                      /\ IF p \in K
                            THEN p \in disk /\ RecordOf(p).deleted = 0
                            ELSE p \notin disk /\ RecordOf(p).deleted = 1

Handled == { p \in TreeFiles : p \notin perms.unreadable /\ ~GitFiltered(p) }

-----------------------------------------------------------------------------
(***************************************************************************)
(* Claims about the event streams                                          *)
(***************************************************************************)

Last(s) == s[Len(s)]

\* The positions of the done and error events of a stream
Terminals(evs) == { k \in DOMAIN evs : evs[k].kind \in {"done", "error"} }

\* Exactly one done or error event, and it is the last event
OneTerminalLast(evs) ==
    /\ Cardinality(Terminals(evs)) = 1
    /\ Len(evs) \in Terminals(evs)

\* A store job run has ended without observing the cancellation token
EndedUncancelled == job.kind # "none" /\ job.pc \in {"done", "error", "exception"}

\* C12 (as stated): for every job, the event stream of a run that was not
\* cancelled holds exactly one done or error event, and that event is the
\* last of the stream.
C12_OneTerminalEventLast ==
    /\ EndedUncancelled => OneTerminalLast(job.events)
    /\ prune.pc = "done" => OneTerminalLast(prune.events)

\* A status event that reports the cancellation
ReportsCancel(e) ==
    e.kind = "status" /\ e.text \in {"cancelled", "Cancelled by user."}

\* The stream ends with the status event of the cancellation and holds no
\* done event
EndsCancelled(evs) ==
    /\ evs # << >>
    /\ ReportsCancel(Last(evs))
    /\ \A k \in DOMAIN evs : evs[k].kind # "done"

\* C13 (as stated): for every job, the event stream of a run that observed
\* the cancellation token set ends with a status event reporting the
\* cancellation and holds no done event.
C13_CancelEndsWithoutDone ==
    /\ (job.kind # "none" /\ job.pc = "cancelled") => EndsCancelled(job.events)
    /\ prune.pc = "cancelled" => EndsCancelled(prune.events)

\* The positions of the progress events of a stream
ProgressAt(evs) == { k \in DOMAIN evs : evs[k].kind = "progress" }

\* Every progress value num / den lies in 0 .. 100 and no progress value is
\* below an earlier one
ProgressOk(evs) ==
    /\ \A k \in ProgressAt(evs) :
          /\ evs[k].den > 0
          /\ 0 <= evs[k].num /\ evs[k].num <= 100 * evs[k].den
    /\ \A k \in ProgressAt(evs), l \in ProgressAt(evs) :
          k < l => evs[k].num * evs[l].den <= evs[l].num * evs[k].den

\* C14: within one run of any job, fresh or resumed, every progress event
\* carries a value between 0 and 100 and the values never decrease.
C14_ProgressMonotoneBounded ==
    /\ job.kind # "none" => ProgressOk(job.events)
    /\ ProgressOk(prune.events)

\* A resumed generate_sql run that counted past total_files: its last
\* progress values were clamped to 100
C14_Witness ==
    /\ job.kind = "generate_sql" /\ job.resume /\ job.pc = "done"
    /\ job.processed > job.total_files
    /\ Cardinality(ProgressAt(job.events)) = 3
    /\ \E k \in ProgressAt(job.events) :
          job.events[k].num < 100 * job.events[k].den

-----------------------------------------------------------------------------
(***************************************************************************)
(* Claims about the checkpoint and the records                             *)
(***************************************************************************)

\* The files of the run's walk that the store shows as handled: a record
\* with the path is present, or the file cannot be hashed (every such file
\* is counted, whether the run has reached it or not)
HandledOfWalk ==
    { k \in DOMAIN job.file_list :
         \/ job.file_list[k] \in ExistingPaths(db.hashvalues)
         \/ ~Readable(job.file_list[k]) }

\* The run is a fresh one, or it resumes a cancelled generate_sql run on
\* the same directory
FreshOrContinued ==
    job.resume => (hist.chain.on /\ hist.chain.resumed)

\* C15 (as stated): at every file boundary of a generate_sql run, fresh or
\* resumed, and after it, the persisted processed_count is at most the
\* number of files of the current walk that have been handled.
C15_CheckpointWithinHandled ==
    (job.kind = "generate_sql" /\ job.pc \in {"loop", "cancelled", "done"}
        /\ FreshOrContinued)
        => GetMetadata(db.meta, "processed_count", 0) <= Cardinality(HandledOfWalk)

\* C16 (as stated): every record with duplicate = 1 has another record of
\* the same hash that is active (deleted = 0) and has a strictly lower row.
C16_DuplicateHasLowerActive ==
    \A i \in DOMAIN db.hashvalues :
        db.hashvalues[i].duplicate = "1"
           => \E o \in RowsWithHash(db.hashvalues, db.hashvalues[i].hash) \ {i} :
                 /\ db.hashvalues[o].deleted = 0
                 /\ db.hashvalues[o].row < db.hashvalues[i].row

\* C17 (as stated): whenever a step inserts a record, its row is strictly
\* greater than the row of every record that was present before the step
\* (so no two records share a row).
C17_RowsStrictlyIncrease ==
    [][ \A k \in DOMAIN db'.hashvalues :
           k > Len(db.hashvalues)
              => \A i \in DOMAIN db.hashvalues :
                    db'.hashvalues[k].row > db.hashvalues[i].row ]_vars

\* C18 (as stated): no two records have the same path.
C18_PathsUnique ==
    \A i \in DOMAIN db.hashvalues, k \in DOMAIN db.hashvalues :
        i # k => db.hashvalues[i].path # db.hashvalues[k].path

\* C19: in every state reached by group_files_generator no two filegroups
\* entries share an originpath and an entry's destinationpath is set exactly
\* when its copied flag is 1; and no step takes an entry's copied flag from
\* 1 back to 0.
C19_FilegroupsConsistent ==
    /\ [](\A i \in DOMAIN db.filegroups :
            /\ \A k \in DOMAIN db.filegroups :
                  i # k => db.filegroups[i].originpath # db.filegroups[k].originpath
            /\ (db.filegroups[i].destinationpath # NULL)
                  <=> (db.filegroups[i].copied = 1))
    /\ [][ \A i \in DOMAIN db.filegroups :
              db.filegroups[i].copied = 1
                 => /\ i \in DOMAIN db'.filegroups
                    /\ db'.filegroups[i].copied = 1 ]_vars

\* A resumed run has completed; one entry is copied and has its
\* destination path, another is not copied and has none
C19_Witness ==
    /\ job.kind = "group_files" /\ job.resume /\ job.pc = "done"
    /\ \E i \in DOMAIN db.filegroups, k \in DOMAIN db.filegroups :
          /\ db.filegroups[i].copied = 1
          /\ db.filegroups[i].destinationpath \in DOMAIN destfiles
          /\ db.filegroups[k].copied = 0
          /\ db.filegroups[k].destinationpath = NULL


\* The checkpoint of a job kind: its cursor and its processed count
CursorKey(kind) ==
    CASE kind = "generate_sql"      -> "last_file"
      [] kind = "mark_duplicates"   -> "dup_last_hash"
      [] kind = "delete_duplicates" -> "del_last_hash"
      [] kind = "group_files"       -> "fg_last_path"

CountKey(kind) ==
    CASE kind = "generate_sql"      -> "processed_count"
      [] kind = "mark_duplicates"   -> "dup_processed_count"
      [] kind = "delete_duplicates" -> "del_processed_count"
      [] kind = "group_files"       -> "fg_processed_count"

CheckpointReset(kind, d) ==
    /\ GetMetadata(d.meta, CursorKey(kind), "") = ""
    /\ GetMetadata(d.meta, CountKey(kind), 0) = 0

\* A step in which generate_sql, generate_and_mark_duplicates or
\* delete_duplicates_generator is called with resume = False; the step runs
\* the call up to its loop or to its early return
FreshCall ==
    /\ runs' = runs + 1
    /\ job'.kind \in {"generate_sql", "mark_duplicates", "delete_duplicates"}
    /\ ~job'.resume

\* C20: the call of an indexing, marking or deleting job with resume = False
\* leaves the checkpoint of that job kind reset (cursor empty, processed
\* count 0) whatever the run then does, also when it ends at once with
\* nothing to process, and every step of such a run keeps each record
\* already present with its path and hash.
C20_FreshRunResetsCheckpoint ==
    [][ /\ FreshCall => CheckpointReset(job'.kind, db')
        /\ (job'.kind # "none" /\ ~job'.resume)
              => \A i \in DOMAIN db.hashvalues :
                    /\ i \in DOMAIN db'.hashvalues
                    /\ db'.hashvalues[i].path = db.hashvalues[i].path
                    /\ db'.hashvalues[i].hash = db.hashvalues[i].hash ]_vars

\* The number of events of one kind in a stream
CountKind(events, kind) ==
    Cardinality({ i \in DOMAIN events : events[i].kind = kind })

\* A step that calls a job on a configuration it must refuse: generate_sql
\* on a start directory that is missing or holds no file, any other job on
\* a store that does not exist, group_files_generator on a missing origin
ConfigErrorCall ==
    /\ runs' = runs + 1
    /\ \/ /\ job'.kind = "generate_sql"
          /\ \/ job'.dir \notin ExistingStartDirs
             \/ Walk(job'.dir, disk, TRUE) = << >>
       \/ /\ job'.kind \in {"mark_duplicates", "delete_duplicates"}
          /\ ~db.exists
       \/ /\ job'.kind = "group_files"
          /\ job'.dir \notin ExistingStartDirs

JobKinds == {"generate_sql", "mark_duplicates", "delete_duplicates", "group_files"}

\* The job kind has a cancelled run that resume_action would continue
ResumableByAction(d, kind) ==
    /\ ResumeAction(d) = kind
    /\ GetMetadata(d.meta, "operation_state", "") = "cancelled"

\* C22: no step of a job of one kind changes the cursor or the processed
\* count of another kind, and a cancelled run of another kind that
\* resume_action would continue before the step is still the one it would
\* continue after it.
C22_CheckpointsDoNotClash ==
    [][ \A kind \in JobKinds \ {job'.kind} :
           /\ GetMetadata(db'.meta, CursorKey(kind), "")
                 = GetMetadata(db.meta, CursorKey(kind), "")
           /\ GetMetadata(db'.meta, CountKey(kind), 0)
                 = GetMetadata(db.meta, CountKey(kind), 0)
           /\ ResumableByAction(db, kind) => ResumableByAction(db', kind) ]_vars

\* The duplicate flag of every record, by rowid
DuplicateFlags(hv) == [i \in DOMAIN hv |-> hv[i].duplicate]

\* The job of the given kind has completed as the resumed run of a
\* cancelled run of the same kind
ResumedToCompletion(kind) ==
    /\ job.kind = kind /\ job.resume /\ job.pc = "done"
    /\ hist.prev.kind = kind /\ hist.prev.pc = "cancelled"

\* C23: when generate_and_mark_duplicates was cancelled and then run with
\* resume=True to its end, the duplicate flags are those an uninterrupted
\* run leaves: no group is left unmarked, so an uninterrupted run on the
\* resulting store finds no flag to set.
C23_ResumedMarkingEqualsUninterrupted ==
    ResumedToCompletion("mark_duplicates")
       => DuplicateFlags(MarkDuplicatesRun(db).hashvalues)
             = DuplicateFlags(db.hashvalues)

\* The records delete_duplicates_generator would still take: in each hash
\* group the visible records after the first with duplicate = 1 and
\* deleted = 0
CandidatesOf(hv, h) ==
    LET visible == Visible(hv, OrderByRowid(hv, RowsWithHash(hv, h)))
    IN  IF visible = << >> THEN {} ELSE Range(ToDelete(hv, visible))

PendingDeletion(hv) == UNION { CandidatesOf(hv, h) : h \in Range(HashOrder) }

\* C24: when delete_duplicates_generator (not dry-run) was cancelled and
\* then run with resume=True to its end, no record is left that is not the
\* kept one of its group, has duplicate = 1 and deleted = 0 and whose file
\* can be removed.
C24_ResumedDeleteRemovesAll ==
    (ResumedToCompletion("delete_duplicates") /\ ~job.dry_run)
       => \A i \in PendingDeletion(db.hashvalues) :
             ~Removable(disk, db.hashvalues[i].path)

\* The filegroups entries with their flags
Entries(fg) ==
    { [originpath |-> fg[i].originpath, copied |-> fg[i].copied,
       duplicate |-> fg[i].duplicate] : i \in DOMAIN fg }

\* C25: when group_files_generator was cancelled on an empty store, in its
\* scan or in its processing loop, and then run with resume=True to its
\* end, the filegroups entries with their copied and duplicate flags and
\* the destination files are those one uninterrupted run leaves on the
\* same origin tree.
C25_ResumedGroupingEqualsUninterrupted ==
    ResumedToCompletion("group_files")
       => LET u == GroupFilesRun(EmptyDb, << >>, job.dir, job.grouping_mode,
                                 job.copy_duplicates, disk)
          IN  /\ Entries(db.filegroups) = Entries(u.db.filegroups)
              /\ destfiles = u.destfiles

\* A step of delete_duplicates_generator (not dry-run) that processes the
\* group at its cursor: neither the cancellation nor a skipped group
DeleteGroupStep ==
    /\ job.kind = "delete_duplicates" /\ job.pc = "loop" /\ ~job.dry_run
    /\ job.i <= Len(job.hash_rows)
    /\ ~cancel_event /\ ~job.start_skipping
    /\ job'.i = job.i + 1

\* The candidates of the group at the cursor
GroupCandidates == CandidatesOf(db.hashvalues, job.hash_rows[job.i])

\* C26: in a run of delete_duplicates_generator that is not a dry run a
\* step sets a record's deleted flag only when it removed the record's file;
\* and in a step that processes a group, a candidate whose file cannot be
\* removed keeps deleted = 0, one log event is emitted for it, the other
\* candidates of the group are removed and flagged, the job goes on, and
\* the record is still among those a later run selects.
C26_DeletedOnlyAfterRemoval ==
    [][ /\ (job'.kind = "delete_duplicates" /\ ~job'.dry_run)
              => \A i \in DOMAIN db.hashvalues :
                    (db.hashvalues[i].deleted = 0 /\ db'.hashvalues[i].deleted = 1)
                       => /\ db.hashvalues[i].path \in disk
                          /\ db.hashvalues[i].path \notin disk'
        /\ DeleteGroupStep
              => LET failing == { c \in GroupCandidates :
                                    ~Removable(disk, db.hashvalues[c].path) }
                 IN  /\ \A c \in failing :
                           /\ db'.hashvalues[c].deleted = 0
                           /\ c \in PendingDeletion(db'.hashvalues)
                     /\ \A c \in GroupCandidates \ failing :
                           /\ db'.hashvalues[c].deleted = 1
                           /\ db.hashvalues[c].path \notin disk'
                     /\ CountKind(job'.events, "log")
                           = CountKind(job.events, "log") + Cardinality(failing)
                     /\ job'.pc = "loop" ]_vars

\* The run has ended: the file of one candidate could not be removed and
\* its record is unflagged, the candidate after it was removed and flagged
C26_Witness ==
    /\ job.kind = "delete_duplicates" /\ ~job.dry_run /\ job.pc = "done"
    /\ job.failed = 1 /\ job.deleted_count = 1
    /\ \E i \in DOMAIN db.hashvalues, k \in DOMAIN db.hashvalues :
          /\ i < k
          /\ db.hashvalues[i].duplicate = "1" /\ db.hashvalues[i].deleted = 0
          /\ db.hashvalues[i].path \in disk
          /\ db.hashvalues[k].deleted = 1
          /\ db.hashvalues[k].path \notin disk

\* The step in which generate_sql sees the cancellation token set
GenerateSqlSeesCancel ==
    /\ job.kind = "generate_sql" /\ job.pc = "loop"
    /\ job'.kind = "generate_sql" /\ job'.pc = "cancelled"

\* C27: the step in which generate_sql sees the cancellation persists
\* operation_state = 'cancelled' and, as processed_count, the number of
\* files of the walk handled so far (those before the file it was about to
\* start), and inserts no record; once cancelled the run changes nothing
\* more; and in every state every record carries the complete hash of its
\* file.
C27_CancelStopsBeforeNextFile ==
    /\ [](\A i \in DOMAIN db.hashvalues :
             db.hashvalues[i].hash = Md5(content[db.hashvalues[i].path]))
    /\ [][ /\ GenerateSqlSeesCancel
                 => /\ GetMetadata(db'.meta, "operation_state", "") = "cancelled"
                    /\ GetMetadata(db'.meta, "processed_count", 0) = job.i - 1
                    /\ db'.hashvalues = db.hashvalues
           /\ (job.kind = "generate_sql" /\ job.pc = "cancelled" /\ runs' = runs)
                 => (db' = db /\ job' = job) ]_vars

\* The step of generate_sql that took a file which is not recorded and was
\* hashed, and left the store without a record of it: its insert failed
InsertFailed ==
    /\ job.kind = "generate_sql" /\ job.pc = "loop"
    /\ job'.kind = "generate_sql" /\ runs' = runs /\ job' # job
    /\ ~cancel_event
    /\ job.i <= Len(job.file_list)
    /\ job.file_list[job.i] \notin job.existing_paths
    /\ ComputeMd5(job.file_list[job.i]) # NULL
    /\ job.file_list[job.i] \notin ExistingPaths(db'.hashvalues)

\* The call of generate_sql whose store could not be opened: the directory
\* passed its checks and the job ends in error
OpenFailed ==
    /\ runs' = runs + 1 /\ job'.kind = "generate_sql" /\ job'.pc = "error"
    /\ DirCheck(job'.dir, Walk(job'.dir, disk, TRUE)) = "ok"

\* C28: a storage failure aborts generate_sql with one terminal error
\* event: when the store cannot be opened the job ends in error and the
\* store is untouched, and a step whose record insert failed ends the job
\* in error, takes no further file and leaves last_file and
\* processed_count where they were before the file.
C28_StorageFailureAborts ==
    [][ /\ OpenFailed
              => /\ CountKind(job'.events, "error") = 1
                 /\ CountKind(job'.events, "done") = 0
                 /\ db' = db
        /\ InsertFailed
              => /\ job'.pc = "error"
                 /\ CountKind(job'.events, "error") = 1
                 /\ job'.i = job.i
                 /\ GetMetadata(db'.meta, "last_file", "") =
                        GetMetadata(db.meta, "last_file", "")
                 /\ GetMetadata(db'.meta, "processed_count", 0) =
                        GetMetadata(db.meta, "processed_count", 0) ]_vars

\* The group of hash h is fully resolved: it has more than one record and
\* every active (deleted = 0) record other than the lowest-sequence one has
\* duplicate = 1
FullyResolved(hv, h) ==
    LET rows == OrderByRow(hv, RowsWithHash(hv, h))
    IN  /\ Len(rows) > 1
        /\ \A k \in 2 .. Len(rows) :
              hv[rows[k]].deleted = 0 => hv[rows[k]].duplicate = "1"

\* C29: the candidate list of a run of generate_and_mark_duplicates holds
\* no hash whose group is fully resolved in the store the run starts from,
\* so that no iteration of the run visits such a group.
C29_ResolvedGroupsNotSelected ==
    [][ (/\ runs' = runs + 1
         /\ job'.kind = "mark_duplicates" /\ job'.pc = "loop")
           => \A k \in DOMAIN job'.hash_rows :
                 ~FullyResolved(db.hashvalues, job'.hash_rows[k]) ]_vars

\* A fresh run of group_files_generator with the skip-duplicates policy,
\* not a dry run, has run to its end
SkipPolicyRunDone ==
    /\ job.kind = "group_files" /\ job.pc = "done"
    /\ ~job.resume /\ ~job.copy_duplicates /\ ~job.dry_run

\* The entry of a readable origin file was copied to the destination
CopiedEntry(e) ==
    /\ e.copied = 1
    /\ e.destinationpath \in DOMAIN destfiles

\* C30: after a fresh run of group_files_generator with the skip-duplicates
\* policy, a readable origin file whose content no other record of
\* hashvalues carries is copied, and among the readable origin files of one
\* content at least one is copied.
C30_SkipPolicyKeepsFirstSeen ==
    SkipPolicyRunDone
       => \A i \in DOMAIN db.filegroups :
             LET e == db.filegroups[i]
                 f == e.originpath
             IN  (f \in disk /\ Readable(f))
                    => /\ (\A r \in DOMAIN db.hashvalues :
                              db.hashvalues[r].hash = Md5(content[f])
                                 => db.hashvalues[r].path = f)
                          => CopiedEntry(e)
                       /\ \E k \in DOMAIN db.filegroups :
                             /\ db.filegroups[k].originpath \in disk
                             /\ content[db.filegroups[k].originpath] = content[f]
                             /\ CopiedEntry(db.filegroups[k])

\* The entry of filegroups for an origin path
EntryOf(fg, originpath) ==
    fg[CHOOSE i \in DOMAIN fg : fg[i].originpath = originpath]

\* A step of group_files_generator (not a dry run) that tried to copy the
\* entry at its cursor and failed: the source cannot be read and no file
\* is at the destination path
CopyFails ==
    /\ job.kind = "group_files" /\ job.pc = "loop" /\ ~job.dry_run
    /\ job.i <= Len(job.rows)
    /\ ~cancel_event
    /\ job'.kind = "group_files" /\ runs' = runs /\ job'.i = job.i + 1
    /\ job'.skipped_count = job.skipped_count
    /\ ~Readable(job.rows[job.i].originpath)
    /\ DestPath(job.dest, job.rows[job.i].extension, job.rows[job.i].filename)
          \notin DOMAIN destfiles

\* C31: a step of group_files_generator whose copy failed with no file at
\* the destination path emits a log event, leaves the entry with
\* copied = 0 and no destinationpath, creates no destination file and
\* leaves the job in its loop; and the workset of every run holds every
\* entry whose copied flag is 0, the failed ones included.
C31_CopyFailureLeftForRetry ==
    [][ /\ CopyFails
              => /\ job'.pc = "loop"
                 /\ job'.events[Len(job'.events)].kind = "log"
                 /\ EntryOf(db'.filegroups, job.rows[job.i].originpath).copied = 0
                 /\ EntryOf(db'.filegroups,
                            job.rows[job.i].originpath).destinationpath = NULL
                 /\ destfiles' = destfiles
        /\ (\/ (job'.kind = "group_files" /\ job'.pc = "loop" /\ runs' = runs + 1)
            \/ (job.kind = "group_files" /\ job.pc = "scan" /\ job'.pc = "loop"))
              => \A i \in DOMAIN db'.filegroups :
                    db'.filegroups[i].copied = 0
                       => \E k \in DOMAIN job'.rows :
                             job'.rows[k].originpath = db'.filegroups[i].originpath
      ]_vars

\* A run that was not a dry run ended with done; the resumed run after it
\* has in its workset an entry whose source cannot be read and whose
\* destination path holds no file
C31_Witness ==
    /\ job.kind = "group_files" /\ job.pc = "loop" /\ job.resume
    /\ hist.prev.kind = "group_files" /\ hist.prev.pc = "done"
    /\ ~hist.prev.dry_run
    /\ \E k \in DOMAIN job.rows :
          /\ ~Readable(job.rows[k].originpath)
          /\ GetHashForPath(db.hashvalues, job.rows[k].originpath) = NULL
          /\ DestPath(job.dest, job.rows[k].extension, job.rows[k].filename)
                \notin DOMAIN destfiles

\* A step of group_files_generator that reached the copy of the entry at
\* its cursor and found a file at the destination path
DestinationExists ==
    /\ job.kind = "group_files" /\ job.pc = "loop"
    /\ job.i <= Len(job.rows)
    /\ ~cancel_event
    /\ job'.kind = "group_files" /\ runs' = runs /\ job'.i = job.i + 1
    /\ job'.pc = "loop"
    /\ job'.skipped_count = job.skipped_count
    /\ DestPath(job.dest, job.rows[job.i].extension, job.rows[job.i].filename)
          \in DOMAIN destfiles

\* C32: no step removes or changes a file of the destination; a step of
\* group_files_generator that finds a file at the destination path of its
\* entry leaves the destination as it is and flags the entry copied with
\* that path; and when a fresh run that is not a dry run has ended with
\* done, one more run over the same origin and destination leaves the
\* destination files as they are.
C32_DestinationNeverOverwritten ==
    /\ [][ /\ \A p \in DOMAIN destfiles :
                  p \in DOMAIN destfiles' /\ destfiles'[p] = destfiles[p]
           /\ DestinationExists
                 => /\ destfiles' = destfiles
                    /\ EntryOf(db'.filegroups,
                               job.rows[job.i].originpath).copied = 1
                    /\ EntryOf(db'.filegroups,
                               job.rows[job.i].originpath).destinationpath =
                          DestPath(job.dest, job.rows[job.i].extension,
                                   job.rows[job.i].filename) ]_vars
    /\ []((job.kind = "group_files" /\ job.pc = "done" /\ ~job.resume
               /\ ~job.dry_run)
             => GroupFilesRun(db, destfiles, job.dir, job.grouping_mode,
                              job.copy_duplicates, disk).destfiles = destfiles)

\* A fresh run that was not a dry run has ended with done; an entry is
\* flagged copied whose destination path holds the content of another
\* origin file
C32_Witness ==
    /\ job.kind = "group_files" /\ job.pc = "done" /\ ~job.resume
    /\ ~job.dry_run
    /\ \E i \in DOMAIN db.filegroups :
          /\ db.filegroups[i].copied = 1
          /\ db.filegroups[i].originpath \in disk
          /\ db.filegroups[i].destinationpath \in DOMAIN destfiles
          /\ destfiles[db.filegroups[i].destinationpath]
                # content[db.filegroups[i].originpath]

\* A step of a dry run of delete_duplicates_generator that processes the
\* group at its cursor: neither the cancellation nor a skipped group
DryGroupStep ==
    /\ job.kind = "delete_duplicates" /\ job.pc = "loop" /\ job.dry_run
    /\ job.i <= Len(job.hash_rows)
    /\ ~cancel_event /\ ~job.start_skipping
    /\ job'.i = job.i + 1

\* C33: no step of a run of delete_duplicates_generator with dry_run=True,
\* its start included, removes a file or changes a record of hashvalues;
\* and a step that processes a group emits one 'deleted' report event for
\* each candidate of the group and no other event but the progress.
C33_DryRunOnlyReports ==
    [][ /\ (job'.kind = "delete_duplicates" /\ job'.dry_run)
              => (disk' = disk /\ db'.hashvalues = db.hashvalues)
        /\ DryGroupStep
              => /\ CountKind(job'.events, "deleted")
                       = CountKind(job.events, "deleted")
                            + Cardinality(GroupCandidates)
                 /\ Len(job'.events)
                       = Len(job.events) + 1 + Cardinality(GroupCandidates)
                 /\ CountKind(job'.events, "progress")
                       = CountKind(job.events, "progress") + 1 ]_vars

\* A dry run has ended after it reported a candidate: the record still has
\* duplicate = 1 and deleted = 0 and its file is on disk
C33_Witness ==
    /\ job.kind = "delete_duplicates" /\ job.dry_run /\ job.pc = "done"
    /\ job.deleted_count >= 1
    /\ CountKind(job.events, "deleted") >= 1
    /\ \E i \in PendingDeletion(db.hashvalues) : db.hashvalues[i].path \in disk

\* The reserved version-control names of generate_sql (240)
ReservedNames == { ".git", "GIT" }

\* The file lies beneath a directory whose name equals a reserved name
\* when case is ignored
BeneathReserved(p) ==
    \E k \in 1 .. Len(Parts(p)) - 1 :
       \E r \in ReservedNames : Upper(Parts(p)[k]) = Upper(r)

\* C34: no file beneath a directory whose name case-insensitively equals a
\* reserved version-control name is in the walk list of generate_sql or has
\* a record in hashvalues, and a second call of generate_sql on the
\* unchanged tree walks the same files in the same order, however the file
\* system lists the directories.
C34_ReservedDirectoriesNeverVisited ==
    /\ []((job.kind = "generate_sql" /\ job.pc \in {"loop", "done"})
            => \A k \in DOMAIN job.file_list : ~BeneathReserved(job.file_list[k]))
    /\ [](\A i \in DOMAIN db.hashvalues : ~BeneathReserved(db.hashvalues[i].path))
    /\ [][ (/\ runs' = runs + 1
            /\ job.kind = "generate_sql" /\ job.pc = "done"
            /\ job'.kind = "generate_sql")
              => (job'.pc = "loop" /\ job'.file_list = job.file_list) ]_vars

\* C35: while generate_sql runs and after it ended, fresh or resumed, the
\* persisted processed_count is at most the persisted total_files, and when
\* the job has completed processed_count is the number of files of its walk.
C35_ProcessedCountWithinTotal ==
    /\ job.kind = "generate_sql" /\ job.pc \in {"loop", "cancelled", "done"}
          => GetMetadata(db.meta, "processed_count", 0)
                <= GetMetadata(db.meta, "total_files", 0)
    /\ job.kind = "generate_sql" /\ job.pc = "done"
          => GetMetadata(db.meta, "processed_count", 0) = Len(job.file_list)

\* Some record of the hash group has its file among the files onDisk
GroupHasFile(hv, h, onDisk) == \E i \in RowsWithHash(hv, h) : hv[i].path \in onDisk

\* C36: no step of delete_duplicates_generator removes the last file of a
\* hash group: a group that has a record whose file is on disk before the
\* step has one after it, whatever records and duplicate flags the other
\* jobs left in the store.
C36_DeleteKeepsOneCopy ==
    [][ job'.kind = "delete_duplicates"
           => \A h \in Range(HashOrder) :
                 GroupHasFile(db.hashvalues, h, disk)
                    => GroupHasFile(db'.hashvalues, h, disk') ]_vars

\* The cancellation was requested and the running job t has not polled the
\* token since: the token is set, t is in its generator and has a
\* cancellation check ahead
CancelPending(t) == thr[t].pc = "run" /\ thr[t].left > 0 /\ cancel_event

\* C37: a cancel request is not lost: while the token is set and a running
\* job has not yet polled it, no step clears the token and the job does no
\* further unit of work; its next step in the generator ends it.
C37_CancelNeverLost ==
    [][ \A t \in Threads :
           CancelPending(t)
              => /\ cancel_event'
                 /\ thr'[t].pc = "run" => thr'[t] = thr[t] ]_vars

\* The generator of thread t has terminated and thread_runner is about to
\* enter its finally clause
GeneratorTerminated(t) == thr[t].pc = "finally"

\* Some thread is inside thread_runner's try block or its finally clause
JobInRunner == \E t \in Threads : thr[t].pc \in {"run", "finally"}

\* C38: whenever a job's generator terminates (done, error, cancelled or an
\* exception) thread_runner goes on to set task_active to False; task_active
\* then stays False until another job takes it, so a start request checked
\* in between is accepted; and task_active is never set while no job is in
\* thread_runner.
C38_TerminationReleasesLock ==
    /\ \A t \in Threads : GeneratorTerminated(t) ~> thr[t].pc = "ended"
    /\ [][ \A t \in Threads :
             /\ (GeneratorTerminated(t) /\ thr'[t].pc = "ended")
                   => ~task_active'
             /\ (thr[t].pc = "check" /\ thr'[t].pc = "rejected")
                   => \E u \in Threads \ {t} : thr[u].pc \in {"run", "finally"}
             /\ (~task_active /\ task_active')
                   => \E u \in Threads : thr[u].pc = "acquire"
                                         /\ thr'[u].pc = "run" ]_vars
    /\ [](task_active => JobInRunner)

\* A job has ended with each outcome in turn being possible; here: thread 1
\* ended, the flag is free and thread 2's request was accepted after it
C38_Witness ==
    /\ thr[1].pc = "ended" /\ thr[1].outcome \in {"cancelled", "exception"}
    /\ thr[2].pc = "run" /\ ~thr[2].sawBusy
    /\ task_active

\* C39: when a run of generate_and_mark_duplicates has ended with done, the
\* number its last duplicate_count event carries is the number of records
\* with duplicate = 1 in the store, the run without a candidate group
\* included.
C39_LastDuplicateCountExact ==
    (job.kind = "mark_duplicates" /\ job.pc = "done")
       => job.duplicate_count = CountDuplicates(db.hashvalues)
=============================================================================
